---- MODULE Spec2Model ----
(***************************************************************************)
(* State-machine model of the dyliswap on-chain program                    *)
(* (program/src/processor.rs): one network record, pool records, LPT       *)
(* account records and the token accounts the handlers move funds between. *)
(*                                                                         *)
(* Every handler of Processor::process is an operator  H(s, ...)  from the *)
(* account records  s  the instruction is given to a result                *)
(*     [err |-> <error kind or "Ok">, s |-> <the records as the handler    *)
(*                                            left them when it returned>] *)
(* so a handler that fails after an earlier  pack  or token transfer       *)
(* returns the partially written records.  The ledger action that runs a   *)
(* handler keeps the records of a successful handler and discards those of *)
(* a failed one (the host's all-or-nothing commit, spec section 5).        *)
(*                                                                         *)
(* Unsigned integers have their machine widths: u64::MAX is 2^64 - 1 and   *)
(* u128::MAX is 2^128 - 1.  Every u64 and u128 value of the program (an    *)
(* amount, a reserve, a share balance, lamports, an instruction argument)  *)
(* is kept as the sequence of its digits in base Radix, least significant  *)
(* digit first and without leading zero digits, so 0 is <<>>, 3000 is      *)
(* <<3000>> and 2^64 - 1 is <<1615, 955, 737, 6744, 1844>>.  N(n) is the   *)
(* digit sequence of the integer n; Plus, Minus, Times, Quot, Rem, Less    *)
(* and AtMost are + - * div mod < <= on digit sequences, and two numbers   *)
(* are equal exactly when their digit sequences are.                       *)
(***************************************************************************)
EXTENDS Integers, Sequences, FiniteSets, TLC

\* ------------------------------------------------------- unsigned integers
\* The base of the digits of a number.
Radix == 10000

Zero == <<>>

One == <<1>>

\* The digits of the integer  n >= 0.
RECURSIVE N(_)
N(n) == IF n = 0 THEN <<>> ELSE <<n % Radix>> \o N(n \div Radix)

\* d  without its leading (last) zero digits.
RECURSIVE Trim(_)
Trim(d) == IF d = <<>> THEN d
           ELSE IF d[Len(d)] = 0 THEN Trim(SubSeq(d, 1, Len(d) - 1)) ELSE d

Digit(a, k) == IF k <= Len(a) THEN a[k] ELSE 0

\* Numbers below Radix^2 are computed with machine integers.
Fits(a) == Len(a) <= 2

Val(a) == Digit(a, 1) + Radix * Digit(a, 2)

\* The digits k, k+1, ... of a + b + carry * Radix^(k-1).
RECURSIVE AddFrom(_, _, _, _)
AddFrom(a, b, k, carry) ==
    IF k > Len(a) /\ k > Len(b) THEN (IF carry = 0 THEN <<>> ELSE <<carry>>)
    ELSE LET t == Digit(a, k) + Digit(b, k) + carry
         IN  <<t % Radix>> \o AddFrom(a, b, k + 1, t \div Radix)

\* a + b
Plus(a, b) == IF Fits(a) /\ Fits(b) THEN N(Val(a) + Val(b))
              ELSE Trim(AddFrom(a, b, 1, 0))

\* Whether a < b for numbers of as many digits, decided from digit k down.
RECURSIVE LessFrom(_, _, _)
LessFrom(a, b, k) == IF k = 0 THEN FALSE
                     ELSE IF a[k] # b[k] THEN a[k] < b[k]
                     ELSE LessFrom(a, b, k - 1)

\* a < b
Less(a, b) == IF Len(a) # Len(b) THEN Len(a) < Len(b)
              ELSE LessFrom(a, b, Len(a))

\* a <= b
AtMost(a, b) == ~Less(b, a)

\* The digits k, k+1, ... of a - b - borrow * Radix^(k-1).
RECURSIVE SubFrom(_, _, _, _)
SubFrom(a, b, k, borrow) ==
    IF k > Len(a) THEN <<>>
    ELSE LET t == a[k] - Digit(b, k) - borrow
         IN  <<(t + Radix) % Radix>>
                 \o SubFrom(a, b, k + 1, IF t < 0 THEN 1 ELSE 0)

\* a - b, for b <= a.
Minus(a, b) == IF Fits(a) THEN N(Val(a) - Val(b))
               ELSE Trim(SubFrom(a, b, 1, 0))

\* The digits k, k+1, ... of a * d + carry * Radix^(k-1), d a digit.
RECURSIVE ScaleFrom(_, _, _, _)
ScaleFrom(a, d, k, carry) ==
    IF k > Len(a) THEN (IF carry = 0 THEN <<>> ELSE <<carry>>)
    ELSE LET t == a[k] * d + carry
         IN  <<t % Radix>> \o ScaleFrom(a, d, k + 1, t \div Radix)

\* a * d for a digit d.
Scale(a, d) == Trim(ScaleFrom(a, d, 1, 0))

\* a times the number of the digits k, k+1, ... of b.
RECURSIVE TimesFrom(_, _, _)
TimesFrom(a, b, k) ==
    IF k > Len(b) THEN <<>>
    ELSE AddFrom(ScaleFrom(a, b[k], 1, 0), <<0>> \o TimesFrom(a, b, k + 1),
                 1, 0)

\* a * b: with machine integers when both are digits, digit by digit of
\* the shorter factor otherwise.
Times(a, b) ==
    IF Len(a) <= 1 /\ Len(b) <= 1 THEN N(Val(a) * Val(b))
    ELSE IF Len(b) = 1 THEN Scale(a, b[1])
    ELSE IF Len(a) = 1 THEN Scale(b, a[1])
    ELSE IF Len(b) <= Len(a) THEN Trim(TimesFrom(a, b, 1))
    ELSE Trim(TimesFrom(b, a, 1))

\* a div d and a mod d for a digit d > 0, from digit k of a down:  rem  is
\* the remainder and  quot  the quotient of the digits above k.
RECURSIVE ShortFrom(_, _, _, _, _)
ShortFrom(a, d, k, rem, quot) ==
    IF k = 0 THEN <<quot, rem>>
    ELSE LET t == rem * Radix + a[k] IN
         IF t < d /\ quot = <<>> THEN ShortFrom(a, d, k - 1, t, quot)
         ELSE ShortFrom(a, d, k - 1, t % d, <<t \div d>> \o quot)

\* The digit r div b, for b * lo <= r < b * hi.
RECURSIVE DigitOf(_, _, _, _)
DigitOf(r, b, lo, hi) ==
    IF hi - lo = 1 THEN lo
    ELSE LET mid == (lo + hi) \div 2
         IN  IF AtMost(Scale(b, mid), r) THEN DigitOf(r, b, mid, hi)
             ELSE DigitOf(r, b, lo, mid)

\* The digit r div b for r < b * Radix, searched between the bounds that
\* the leading digits give: with n the length of b, top the leading digits
\* n, n+1 of r and lead the leading digit of b,
\* top div (lead + 1) <= r div b <= top div lead.
TopDigit(r, b) ==
    LET top  == Digit(r, Len(b)) + Radix * Digit(r, Len(b) + 1)
        lead == b[Len(b)]
        hi   == top \div lead
    IN  DigitOf(r, b, top \div (lead + 1),
                IF hi < Radix THEN hi + 1 ELSE Radix)

\* Long division from digit k of a down, one digit of the quotient at a
\* time:  rem  is the remainder and  quot  the quotient of the digits
\* above k.
RECURSIVE LongFrom(_, _, _, _, _)
LongFrom(a, b, k, rem, quot) ==
    IF k = 0 THEN <<quot, rem>>
    ELSE LET t == Trim(<<a[k]>> \o rem)
             d == TopDigit(t, b)
         IN  IF d = 0 /\ quot = <<>> THEN LongFrom(a, b, k - 1, t, quot)
             ELSE LongFrom(a, b, k - 1, Minus(t, Scale(b, d)),
                           <<d>> \o quot)

\* <<a div b, a mod b>> by long division, for b > 0.
LongDivMod(a, b) == LongFrom(a, b, Len(a), Zero, Zero)

\* How many low digits of b are zero, for b > 0.
RECURSIVE LowZeros(_)
LowZeros(b) == IF b[1] # 0 THEN 0 ELSE 1 + LowZeros(Tail(b))

\* <<a div b, a mod b>>, for b > 0: with machine integers when both are
\* small; by division by one digit when b is a digit times a power of the
\* base (the low digits of a then are the low digits of the remainder);
\* else by long division.
DivMod(a, b) ==
    IF Fits(a) /\ Fits(b) THEN <<N(Val(a) \div Val(b)), N(Val(a) % Val(b))>>
    ELSE IF Less(a, b) THEN <<Zero, a>>
    ELSE IF Len(b) = LowZeros(b) + 1
    THEN LET z  == LowZeros(b)
             hi == SubSeq(a, z + 1, Len(a))
             s  == ShortFrom(hi, b[z + 1], Len(hi), 0, Zero)
         IN  <<s[1], Trim(SubSeq(a, 1, z) \o N(s[2]))>>
    ELSE LongDivMod(a, b)

Quot(a, b) == DivMod(a, b)[1]

Rem(a, b) == DivMod(a, b)[2]

\* 2^k
RECURSIVE Pow2(_)
Pow2(k) == IF k = 0 THEN One
           ELSE IF k % 2 = 1 THEN Times(N(2), Pow2(k - 1))
           ELSE LET h == Pow2(k \div 2) IN Times(h, h)

\* Whether a is a number: digits of the base, no leading zero digit.
IsNumber(a) == /\ \A k \in 1..Len(a) : a[k] \in 0..(Radix - 1)
               /\ a # <<>> => a[Len(a)] # 0

\* u64::MAX
U64_MAX == Minus(Pow2(64), One)

\* u128::MAX
U128_MAX == Minus(Pow2(128), One)

\* Option::None of the checked operations (no number has this digit).
None == <<-1>>

\* ------------------------------------------------------- program constants
FEE == 2500000

EARN == 500000

FEE_DECIMALS == 1000000000

\* ------------------------------------------------------------ the universe
Users == {"alice", "bob"}

PRIMARY == "SEN"

\* Mint accounts that exist; "B" is never approved by the network.
Mints == {"SEN", "A", "B"}

\* The mint accounts handed to InitializeNetwork after the network account.
NetworkMintArgs == {<<"A">>}

PoolIds == {"P1", "P2", "P3"}

LptIds == {"L1", "L2", "L3"}

NetworkId == "N"

\* Token account addresses: one custody address per pool address, one wallet
\* per user and mint, one protocol vault per mint.  Which custody account a
\* pool uses is the handlers' input.
Treasury(p) == <<"treasury", p>>

Wallet(u, m) == <<"wallet", u, m>>

Vault(m) == <<"vault", m>>

\* Program-derived treasurer address of a pool (create_program_address).
Treasurer(p) == <<"treasurer", p>>

FundedMints == {"SEN", "A"}

TokenAccounts ==
    {Treasury(p) : p \in PoolIds}
        \cup {Wallet(u, m) : u \in Users, m \in FundedMints}
        \cup {Vault(m) : m \in FundedMints}

\* Tokens every wallet holds at the start.
WalletInit == 4000

\* Lamports that keep an account's storage alive.
RentLamports == 1

\* The result x of a checked step, None when it does not fit max.
Bounded(x, max) == IF x = None THEN None
                   ELSE IF Less(max, x) THEN None ELSE x

\* ------------------------------------------------ checked integer arithmetic
\* Mutant: wrapping instead of checked addition.
WrappingAdd(a, b, max) == IF a = None \/ b = None THEN None
                          ELSE Rem(Plus(a, b), Plus(max, One))

\* u64/u128::checked_add: None when the sum does not fit  max.
CheckedAdd(a, b, max) == IF a = None \/ b = None THEN None
                         ELSE Bounded(Plus(a, b), max)

\* checked_sub: None when the difference is negative.
CheckedSub(a, b) == IF a = None \/ b = None THEN None
                    ELSE IF Less(a, b) THEN None ELSE Minus(a, b)

\* checked_mul: None when the product does not fit  max.
CheckedMul(a, b, max) == IF a = None \/ b = None THEN None
                         ELSE Bounded(Times(a, b), max)

\* checked_div: None on division by zero.
CheckedDiv(a, b) == IF a = None \/ b = None THEN None
                    ELSE IF b = Zero THEN None ELSE Quot(a, b)

\* `x as u64`: keeps the low 64 bits of a u128.
AsU64(x) == IF x = None THEN None ELSE Rem(x, Plus(U64_MAX, One))

\* ------------------------------------------------------------------ records
\* Network::max_mints(): slots of Network.mints, slot 0 the primary mint.
MaxMints == 2

\* A key field of a zeroed record.
NoKey == <<"none">>

Key(u) == <<"user", u>>

EmptyNetwork == [state |-> "Uninitialized", mints |-> <<>>]

EmptyPool == [is_initialized |-> FALSE, owner |-> "none", network |-> "none",
              mint |-> "none", treasury |-> NoKey, reserve |-> Zero,
              lpt |-> Zero, fee |-> Zero]

EmptyLPT == [is_initialized |-> FALSE, owner |-> "none", pool |-> "none",
             lpt |-> Zero]

\* Network::is_initialized / is_activated / is_approved.
NetworkIsInitialized(n) == n.state # "Uninitialized"

NetworkIsActivated(n) == n.state = "Activated"

NetworkIsApproved(n, mint) == \E i \in 1..Len(n.mints) : n.mints[i] = mint

\* The handlers' result: the error kind and the records as they were left.
R(e, s) == [err |-> e, s |-> s]

\* ------------------------------------------------- Token Transfer Service
\* A token account that was closed: no mint, no tokens, no lamports.
ClosedAccount == [mint |-> "none", amount |-> Zero, owner |-> NoKey,
                  lamports |-> Zero]

\* A token account that was created and funded for its storage but not yet
\* opened for a mint.
UnopenedAccount == [ClosedAccount EXCEPT !.lamports = N(RentLamports)]

\* The authority of the protocol's vaults.
Protocol == <<"protocol">>

\* Result of a cross-program call into the token program.
TokOk(tok) == [ok |-> TRUE, tok |-> tok]

TokErr(tok) == [ok |-> FALSE, tok |-> tok]

\* ISPLT::initialize_account + invoke_signed: opens the token account for a
\* mint under the authority  owner ; fails when it is already open and when
\* it does not hold the lamports of its storage (an account that was closed
\* holds none).
TokenInitializeAccount(tok, acc, mint, owner) ==
    IF tok[acc].mint # "none" THEN TokErr(tok)
    ELSE IF Less(tok[acc].lamports, N(RentLamports)) THEN TokErr(tok)
    ELSE TokOk([tok EXCEPT ![acc] =
                  [mint |-> mint, amount |-> Zero, owner |-> owner,
                   lamports |-> tok[acc].lamports]])

\* ISPLT::transfer + invoke: fails on a closed account, a mint mismatch, a
\* wrong authority, insufficient funds or an overflowing credit; a transfer
\* from an account to itself moves nothing.
TokenTransfer(tok, amount, src, dst, authority) ==
    IF tok[src].mint = "none" \/ tok[dst].mint = "none" THEN TokErr(tok)
    ELSE IF tok[src].mint # tok[dst].mint THEN TokErr(tok)
    ELSE IF authority # tok[src].owner THEN TokErr(tok)
    ELSE IF Less(tok[src].amount, amount) THEN TokErr(tok)
    ELSE IF src = dst THEN TokOk(tok)
    ELSE IF Less(U64_MAX, Plus(tok[dst].amount, amount)) THEN TokErr(tok)
    ELSE TokOk([tok EXCEPT ![src].amount = Minus(@, amount),
                           ![dst].amount = Plus(@, amount)])

\* ISPLT::close_account + invoke_signed: fails unless the account is open,
\* empty and closed by its authority; the lamports of the closed account go
\* to the account  dst  (lam: the lamports of the records and users).
TokenCloseAccount(tok, lam, acc, dst, authority) ==
    IF tok[acc].mint = "none" THEN [ok |-> FALSE, tok |-> tok, lam |-> lam]
    ELSE IF authority # tok[acc].owner
    THEN [ok |-> FALSE, tok |-> tok, lam |-> lam]
    ELSE IF tok[acc].amount # Zero
    THEN [ok |-> FALSE, tok |-> tok, lam |-> lam]
    ELSE
    LET sum == CheckedAdd(lam[dst], tok[acc].lamports, U64_MAX) IN
    IF sum = None THEN [ok |-> FALSE, tok |-> tok, lam |-> lam]
    ELSE [ok |-> TRUE, tok |-> [tok EXCEPT ![acc] = ClosedAccount],
          lam |-> [lam EXCEPT ![dst] = sum]]

\* ----------------------------------------------------------------- handlers
\* Mutant: no exactly-once guard.
InitializeNetworkTwice(s, signed, mintArgs) ==
    IF ~signed THEN R("InvalidOwner", s)
    ELSE IF Len(mintArgs) < MaxMints - 1 THEN R("NotEnoughAccountKeys", s)
    ELSE R("Ok", [s EXCEPT !.network =
                    [state |-> "Initialized",
                     mints |-> <<PRIMARY>> \o SubSeq(mintArgs, 1, MaxMints - 1)]])

\* AppInstruction::InitializeNetwork {}
InitializeNetwork(s, signed, mintArgs) ==
    IF NetworkIsInitialized(s.network) THEN R("ConstructorOnce", s)
    ELSE IF ~signed THEN R("InvalidOwner", s)
    ELSE IF Len(mintArgs) < MaxMints - 1 THEN R("NotEnoughAccountKeys", s)
    ELSE R("Ok", [s EXCEPT !.network =
                    [state |-> "Initialized",
                     mints |-> <<PRIMARY>> \o SubSeq(mintArgs, 1, MaxMints - 1)]])

\* Mutant: pools of any approved mint are created in any order.
PoolGateAnyOrder(n, mint) ==
    IF ~NetworkIsApproved(n, mint) THEN "UnmatchedPool" ELSE "Ok"

\* InitializePool's checks of the mint against the network: the error they
\* return, or "Ok".
PoolGate(n, mint) ==
    IF ~NetworkIsApproved(n, mint) THEN "UnmatchedPool"
    ELSE IF mint # PRIMARY /\ ~NetworkIsActivated(n) THEN "NotInitialized"
    ELSE IF mint = PRIMARY /\ NetworkIsActivated(n) THEN "ConstructorOnce"
    ELSE "Ok"

\* AppInstruction::InitializePool { reserve, lpt }
InitializePool(s, owner, signed, p, treasury, l, src, mint, treasurer, reserve, lpt) ==
    IF ~NetworkIsInitialized(s.network) THEN R("UninitializedAccount", s)
    ELSE IF s.pools[p].is_initialized \/ s.lpts[l].is_initialized
    THEN R("ConstructorOnce", s)
    ELSE IF ~signed \/ Treasurer(p) # treasurer THEN R("InvalidOwner", s)
    ELSE IF PoolGate(s.network, mint) # "Ok"
    THEN R(PoolGate(s.network, mint), s)
    ELSE IF reserve = Zero \/ lpt = Zero THEN R("ZeroValue", s)
    ELSE
    LET c1 == TokenInitializeAccount(s.tokens, treasury, mint, treasurer) IN
    IF ~c1.ok THEN R("TokenError", s)
    ELSE
    LET s1 == [s EXCEPT !.tokens = c1.tok]
        c2 == TokenTransfer(c1.tok, reserve, src, treasury, Key(owner))
    IN
    IF ~c2.ok THEN R("TokenError", s1)
    ELSE
    LET s2 == [s1 EXCEPT !.tokens = c2.tok]
        s3 == IF mint = PRIMARY
              THEN [s2 EXCEPT !.network.state = "Activated"]
              ELSE s2
        s4 == [s3 EXCEPT !.pools[p] =
                 [is_initialized |-> TRUE, owner |-> owner,
                  network |-> NetworkId, mint |-> mint,
                  treasury |-> treasury, reserve |-> reserve, lpt |-> lpt,
                  fee |-> N(FEE)]]
        s5 == [s4 EXCEPT !.lpts[l] =
                 [is_initialized |-> TRUE, owner |-> owner, pool |-> p,
                  lpt |-> lpt]]
    IN R("Ok", s5)

\* Mutant: no exactly-once guard.
InitializeLPTOverwrites(s, owner, signed, p, l) ==
    IF ~signed THEN R("InvalidOwner", s)
    ELSE R("Ok", [s EXCEPT !.lpts[l] =
                    [is_initialized |-> TRUE, owner |-> owner, pool |-> p,
                     lpt |-> Zero]])

\* AppInstruction::InitializeLPT {}
InitializeLPT(s, owner, signed, p, l) ==
    IF s.lpts[l].is_initialized THEN R("ConstructorOnce", s)
    ELSE IF ~signed THEN R("InvalidOwner", s)
    ELSE R("Ok", [s EXCEPT !.lpts[l] =
                    [is_initialized |-> TRUE, owner |-> owner, pool |-> p,
                     lpt |-> Zero]])

\* Mutant: mints against the reserve after the deposit was added to it.
PaidLptAfterDeposit(pool_lpt, reserve, pool_reserve) ==
    CheckedDiv(CheckedMul(pool_lpt, reserve, U128_MAX),
               Plus(pool_reserve, reserve))

\* Mutant: rounds the minted shares up.
PaidLptRoundUp(pool_lpt, reserve, pool_reserve) ==
    LET m == CheckedMul(pool_lpt, reserve, U128_MAX)
        q == CheckedDiv(m, pool_reserve)
    IN  IF q = None THEN None
        ELSE IF Rem(m, pool_reserve) # Zero THEN Plus(q, One) ELSE q

\* AddLiquidity, "Compute corresponding paid-back lpt":
\* pool.lpt.checked_mul(reserve as u128)?.checked_div(pool.reserve as u128)?
PaidLpt(pool_lpt, reserve, pool_reserve) ==
    CheckedDiv(CheckedMul(pool_lpt, reserve, U128_MAX), pool_reserve)

\* RemoveLiquidity, "Compute corresponding paid-back reserve":
\* (pool.reserve as u128).checked_mul(lpt)?.checked_div(pool.lpt)? as u64
PaidReserve(pool_reserve, lpt, pool_lpt) ==
    AsU64(CheckedDiv(CheckedMul(pool_reserve, lpt, U128_MAX), pool_lpt))

\* Mutant: the pool's share supply is not reduced by the burned shares.
BurnPoolLptForgotten(pool_lpt, lpt) == pool_lpt

\* RemoveLiquidity, "Update pool": pool_data.lpt.checked_sub(lpt)
BurnPoolLpt(pool_lpt, lpt) == CheckedSub(pool_lpt, lpt)

\* AppInstruction::AddLiquidity { reserve }
AddLiquidity(s, owner, signed, p, treasury, l, src, reserve) ==
    IF ~s.pools[p].is_initialized \/ ~s.lpts[l].is_initialized
    THEN R("UninitializedAccount", s)
    ELSE
    LET pool_data == s.pools[p]
        lpt_data  == s.lpts[l]
    IN
    IF ~signed \/ pool_data.treasury # treasury \/ lpt_data.owner # owner
    THEN R("InvalidOwner", s)
    ELSE IF lpt_data.pool # p THEN R("UnmatchedPool", s)
    ELSE IF reserve = Zero THEN R("ZeroValue", s)
    ELSE
    LET c1 == TokenTransfer(s.tokens, reserve, src, treasury, Key(owner)) IN
    IF ~c1.ok THEN R("TokenError", s)
    ELSE
    LET s1 == [s EXCEPT !.tokens = c1.tok]
        paid_lpt == PaidLpt(pool_data.lpt, reserve, pool_data.reserve)
        new_reserve == CheckedAdd(pool_data.reserve, reserve, U64_MAX)
        new_lpt == CheckedAdd(pool_data.lpt, paid_lpt, U128_MAX)
    IN
    IF paid_lpt = None \/ new_reserve = None \/ new_lpt = None
    THEN R("Overflow", s1)
    ELSE
    LET s2 == [s1 EXCEPT !.pools[p] =
                 [pool_data EXCEPT !.reserve = new_reserve, !.lpt = new_lpt]]
        acc_lpt == CheckedAdd(lpt_data.lpt, paid_lpt, U128_MAX)
    IN
    IF acc_lpt = None THEN R("Overflow", s2)
    ELSE R("Ok", [s2 EXCEPT !.lpts[l] = [lpt_data EXCEPT !.lpt = acc_lpt]])

\* Mutant: any signer may debit the account.
AnySigner(signed, recorded, owner) == ~signed

\* RemoveLiquidity's and Transfer's check of the account's owner:
\* !owner.is_signer || lpt_data.owner != *owner.key .
NotSignedByOwner(signed, recorded, owner) == ~signed \/ recorded # owner

\* Mutant: the balance check lets through one share more than is held.
LacksFundsOffByOne(have, lpt) == Less(Plus(have, One), lpt)

\* Mutant: the balance check refuses to empty an account.
LacksFundsOrEqual(have, lpt) == AtMost(have, lpt)

\* RemoveLiquidity's and Transfer's balance check:  lpt_data.lpt < lpt .
LacksFunds(have, lpt) == Less(have, lpt)

\* AppInstruction::RemoveLiquidity { lpt }
RemoveLiquidity(s, owner, signed, p, treasury, l, dst, treasurer, lpt) ==
    IF ~s.pools[p].is_initialized \/ ~s.lpts[l].is_initialized
    THEN R("UninitializedAccount", s)
    ELSE
    LET pool_data == s.pools[p]
        lpt_data  == s.lpts[l]
    IN
    IF NotSignedByOwner(signed, lpt_data.owner, owner)
       \/ pool_data.treasury # treasury
       \/ Treasurer(p) # treasurer
    THEN R("InvalidOwner", s)
    ELSE IF lpt_data.pool # p THEN R("UnmatchedPool", s)
    ELSE IF lpt = Zero THEN R("ZeroValue", s)
    ELSE IF LacksFunds(lpt_data.lpt, lpt) THEN R("InsufficientFunds", s)
    ELSE
    LET paid_reserve == PaidReserve(pool_data.reserve, lpt, pool_data.lpt)
        acc_lpt == CheckedSub(lpt_data.lpt, lpt)
    IN
    IF paid_reserve = None \/ acc_lpt = None THEN R("Overflow", s)
    ELSE
    LET s1 == [s EXCEPT !.lpts[l] = [lpt_data EXCEPT !.lpt = acc_lpt]]
        new_reserve == CheckedSub(pool_data.reserve, paid_reserve)
        new_lpt == BurnPoolLpt(pool_data.lpt, lpt)
    IN
    IF new_reserve = None \/ new_lpt = None THEN R("Overflow", s1)
    ELSE
    LET s2 == [s1 EXCEPT !.pools[p] =
                 [pool_data EXCEPT !.reserve = new_reserve, !.lpt = new_lpt]]
        c1 == TokenTransfer(s2.tokens, paid_reserve, treasury, dst, treasurer)
    IN
    IF ~c1.ok THEN R("TokenError", s2)
    ELSE R("Ok", [s2 EXCEPT !.tokens = c1.tok])

\* Curve::curve (helper/curve.rs): the target pool's new reserve when the
\* source pool's reserve moves from bid_reserve to new_bid_reserve with both
\* share supplies fixed, i.e. the constant product of the two reserves
\*     new_bid_reserve * new_ask_reserve = bid_reserve * ask_reserve
\* rounded down; None on overflow or division by zero.
Curve(new_bid_reserve, bid_reserve, bid_lpt, ask_reserve, ask_lpt) ==
    Bounded(CheckedDiv(CheckedMul(bid_reserve, ask_reserve, U128_MAX),
                       new_bid_reserve),
            U64_MAX)

\* Mutant: divides before it multiplies, losing the whole fraction.
FeeShareDivideFirst(amount, rate) ==
    IF amount = None THEN None
    ELSE AsU64(Times(Quot(amount, N(FEE_DECIMALS)), N(rate)))

\* Mutant: rounds the share up.
FeeShareRoundUp(amount, rate) ==
    IF amount = None THEN None
    ELSE LET qr == DivMod(Times(amount, N(rate)), N(FEE_DECIMALS))
         IN  AsU64(IF qr[2] # Zero THEN Plus(qr[1], One) ELSE qr[1])

\* apply_fee's share of an amount at  rate / FEE_DECIMALS :
\* (amount as u128).checked_mul(rate as u128)?
\*     .checked_div(FEE_DECIMALS as u128)? as u64
FeeShare(amount, rate) ==
    AsU64(CheckedDiv(CheckedMul(amount, N(rate), U128_MAX), N(FEE_DECIMALS)))

\* Processor::apply_fee: Some(new_ask_reserve_with_fee, paid_amount_with_fee,
\* fee, earn) or None (some = FALSE).
NoFee == [some |-> FALSE, new_ask_reserve_with_fee |-> Zero,
          paid_amount_with_fee |-> Zero, fee |-> Zero, earn |-> Zero]

\* apply_fee from the two shares on: the reserve with the fee and the
\* amount paid out, or None when a step before or here fails.
ApplyFeeShares(new_ask_reserve, paid_amount_without_fee, fee, earn) ==
    LET new_ask_reserve_with_fee == CheckedAdd(new_ask_reserve, fee, U64_MAX)
        paid_amount_with_fee ==
            CheckedSub(CheckedSub(paid_amount_without_fee, fee), earn)
    IN  IF paid_amount_without_fee = None \/ fee = None \/ earn = None
           \/ new_ask_reserve_with_fee = None \/ paid_amount_with_fee = None
        THEN NoFee
        ELSE [some |-> TRUE,
              new_ask_reserve_with_fee |-> new_ask_reserve_with_fee,
              paid_amount_with_fee |-> paid_amount_with_fee,
              fee |-> fee, earn |-> earn]

ApplyFee(new_ask_reserve, ask_reserve, is_primary) ==
    LET paid_amount_without_fee == CheckedSub(ask_reserve, new_ask_reserve)
        earn == FeeShare(paid_amount_without_fee, EARN)
    IN  ApplyFeeShares(new_ask_reserve, paid_amount_without_fee,
                       FeeShare(paid_amount_without_fee, FEE),
                       IF is_primary /\ earn # None THEN Zero ELSE earn)
\* The earn step of Swap: prices the earn in the settlement pool, lowers the
\* settlement pool's reserve and pays the account passed as the vault.
\* sen_pool_data is the copy of the settlement pool unpacked when the handler
\* started.
SwapEarn(s3, sen, sen_pool_data, sen_treasury, vault, sen_treasurer, earn_in_sen) ==
    LET sen_reserve == CheckedSub(sen_pool_data.reserve, earn_in_sen) IN
    IF earn_in_sen = None \/ sen_reserve = None THEN R("Overflow", s3)
    ELSE
    LET s4 == [s3 EXCEPT !.pools[sen] =
                 [sen_pool_data EXCEPT !.reserve = sen_reserve]]
        c3 == TokenTransfer(s4.tokens, earn_in_sen, sen_treasury, vault,
                            sen_treasurer)
    IN
    IF ~c3.ok THEN R("TokenError", s4)
    ELSE R("Ok", [s4 EXCEPT !.tokens = c3.tok])

\* Mutant: the handler never takes the early return.
SamePoolNever(bid, ask) == FALSE

\* Swap's early return:  *bid_pool_acc.key == *ask_pool_acc.key .
SamePool(bid, ask) == bid = ask

\* Swap from "Apply fee" on, with  f  what apply_fee returned: "Transfer
\* ask" and, when there is an earn, "Transfer earn".  s1 holds the writes of
\* "Transfer bid"; ask_pool_data and sen_pool_data are the copies unpacked
\* when the handler started.
SwapAsk(s1, ask, ask_pool_data, ask_treasury, dst, ask_treasurer, sen, sen_pool_data, sen_treasury, vault, sen_treasurer, f) ==
    IF ~f.some THEN R("Overflow", s1)
    ELSE
    LET new_ask_reserve ==
            CheckedAdd(f.new_ask_reserve_with_fee, f.earn, U64_MAX)
    IN
    IF new_ask_reserve = None THEN R("Overflow", s1)
    ELSE
    LET s2 == [s1 EXCEPT !.pools[ask] =
                 [ask_pool_data EXCEPT !.reserve = new_ask_reserve]]
        c2 == TokenTransfer(s2.tokens, f.paid_amount_with_fee, ask_treasury,
                            dst, ask_treasurer)
    IN
    IF ~c2.ok THEN R("TokenError", s2)
    ELSE
    LET s3 == [s2 EXCEPT !.tokens = c2.tok] IN
    IF f.earn # Zero
    THEN SwapEarn(s3, sen, sen_pool_data, sen_treasury, vault, sen_treasurer,
                  Curve(new_ask_reserve, f.new_ask_reserve_with_fee,
                        ask_pool_data.lpt, sen_pool_data.reserve,
                        sen_pool_data.lpt))
    ELSE R("Ok", s3)

\* AppInstruction::Swap { amount }.  src, dst and vault are the token
\* accounts the caller passes for the deposit, the payout and the earn.
Swap(s, owner, signed, bid, bid_treasury, src, ask, ask_treasury, dst, ask_treasurer, sen, sen_treasury, vault, sen_treasurer, amount) ==
    IF ~s.pools[bid].is_initialized \/ ~s.pools[ask].is_initialized
       \/ ~s.pools[sen].is_initialized
    THEN R("UninitializedAccount", s)
    ELSE
    LET bid_pool_data == s.pools[bid]
        ask_pool_data == s.pools[ask]
        sen_pool_data == s.pools[sen]
    IN
    IF ~signed
       \/ bid_pool_data.treasury # bid_treasury
       \/ ask_pool_data.treasury # ask_treasury
       \/ Treasurer(ask) # ask_treasurer
       \/ sen_pool_data.treasury # sen_treasury
       \/ Treasurer(sen) # sen_treasurer
    THEN R("InvalidOwner", s)
    ELSE IF sen_pool_data.network # bid_pool_data.network
            \/ sen_pool_data.network # ask_pool_data.network
    THEN R("IncorrectNetworkId", s)
    ELSE IF amount = Zero THEN R("ZeroValue", s)
    ELSE IF SamePool(bid, ask) THEN R("Ok", s)
    ELSE
    LET new_bid_reserve == CheckedAdd(bid_pool_data.reserve, amount, U64_MAX)
        new_ask_reserve_without_fee ==
            IF new_bid_reserve = None THEN None
            ELSE Curve(new_bid_reserve, bid_pool_data.reserve,
                       bid_pool_data.lpt, ask_pool_data.reserve,
                       ask_pool_data.lpt)
    IN
    IF new_bid_reserve = None \/ new_ask_reserve_without_fee = None
    THEN R("Overflow", s)
    ELSE
    LET c1 == TokenTransfer(s.tokens, amount, src, bid_treasury, Key(owner)) IN
    IF ~c1.ok THEN R("TokenError", s)
    ELSE
    LET s1 == [s EXCEPT !.tokens = c1.tok,
                        !.pools[bid] =
                          [bid_pool_data EXCEPT !.reserve = new_bid_reserve]]
        is_primary == ask_pool_data.mint = PRIMARY
    IN
    SwapAsk(s1, ask, ask_pool_data, ask_treasury, dst, ask_treasurer, sen,
            sen_pool_data, sen_treasury, vault, sen_treasurer,
            ApplyFee(new_ask_reserve_without_fee, ask_pool_data.reserve,
                     is_primary))

\* Mutant: shares move between accounts of any two pools.
TransferWithoutPoolCheck(s, owner, signed, src, dst, lpt) ==
    IF ~s.lpts[src].is_initialized \/ ~s.lpts[dst].is_initialized
    THEN R("UninitializedAccount", s)
    ELSE IF ~signed \/ s.lpts[src].owner # owner THEN R("InvalidOwner", s)
    ELSE IF lpt = Zero THEN R("ZeroValue", s)
    ELSE IF Less(s.lpts[src].lpt, lpt) THEN R("InsufficientFunds", s)
    ELSE IF src = dst THEN R("Ok", s)
    ELSE IF Less(U128_MAX, Plus(s.lpts[dst].lpt, lpt)) THEN R("Overflow", s)
    ELSE R("Ok", [s EXCEPT !.lpts[src].lpt = Minus(@, lpt),
                           !.lpts[dst].lpt = Plus(@, lpt)])

\* AppInstruction::Transfer { lpt }
Transfer(s, owner, signed, src, dst, lpt) ==
    IF ~s.lpts[src].is_initialized \/ ~s.lpts[dst].is_initialized
    THEN R("UninitializedAccount", s)
    ELSE
    LET src_lpt_data == s.lpts[src]
        dst_lpt_data == s.lpts[dst]
    IN
    IF NotSignedByOwner(signed, src_lpt_data.owner, owner)
    THEN R("InvalidOwner", s)
    ELSE IF src_lpt_data.pool # dst_lpt_data.pool THEN R("UnmatchedPool", s)
    ELSE IF lpt = Zero THEN R("ZeroValue", s)
    ELSE IF LacksFunds(src_lpt_data.lpt, lpt) THEN R("InsufficientFunds", s)
    ELSE IF src = dst THEN R("Ok", s)
    ELSE
    LET src_lpt == CheckedSub(src_lpt_data.lpt, lpt) IN
    IF src_lpt = None THEN R("Overflow", s)
    ELSE
    LET s1 == [s EXCEPT !.lpts[src] = [src_lpt_data EXCEPT !.lpt = src_lpt]]
        dst_lpt == CheckedAdd(dst_lpt_data.lpt, lpt, U128_MAX)
    IN
    IF dst_lpt = None THEN R("Overflow", s1)
    ELSE R("Ok", [s1 EXCEPT !.lpts[dst] = [dst_lpt_data EXCEPT !.lpt = dst_lpt]])

\* Mutant: an account is closed whatever it holds.
CloseLPTWithoutZeroCheck(s, owner, signed, l, dst) ==
    IF ~s.lpts[l].is_initialized THEN R("UninitializedAccount", s)
    ELSE IF ~signed \/ s.lpts[l].owner # owner THEN R("InvalidOwner", s)
    ELSE
    LET sum == CheckedAdd(s.lamports[l], s.lamports[dst], U64_MAX) IN
    IF sum = None THEN R("Overflow", s)
    ELSE R("Ok", [s EXCEPT !.lamports = [@ EXCEPT ![dst] = sum, ![l] = Zero]])

\* AppInstruction::CloseLPT {}: dst is the user whose account is credited
\* with the record's lamports.
CloseLPT(s, owner, signed, l, dst) ==
    IF ~s.lpts[l].is_initialized THEN R("UninitializedAccount", s)
    ELSE IF ~signed \/ s.lpts[l].owner # owner THEN R("InvalidOwner", s)
    ELSE IF s.lpts[l].lpt # Zero THEN R("ZeroValue", s)
    ELSE
    LET sum == CheckedAdd(s.lamports[l], s.lamports[dst], U64_MAX) IN
    IF sum = None THEN R("Overflow", s)
    ELSE R("Ok", [s EXCEPT !.lamports = [@ EXCEPT ![dst] = sum, ![l] = Zero]])

\* AppInstruction::ClosePool {}: the token program closes the treasury into
\* dst, whose lamports are read after that call and raised by the pool's.
ClosePool(s, owner, signed, p, treasury, treasurer, dst) ==
    IF ~s.pools[p].is_initialized THEN R("UninitializedAccount", s)
    ELSE
    LET pool_data == s.pools[p] IN
    IF ~signed \/ pool_data.owner # owner \/ pool_data.treasury # treasury
       \/ Treasurer(p) # treasurer
    THEN R("InvalidOwner", s)
    ELSE IF pool_data.lpt # Zero \/ pool_data.reserve # Zero THEN R("ZeroValue", s)
    ELSE
    LET c1 == TokenCloseAccount(s.tokens, s.lamports, treasury, dst,
                                treasurer)
    IN
    IF ~c1.ok THEN R("TokenError", s)
    ELSE
    LET s1 == [s EXCEPT !.tokens = c1.tok, !.lamports = c1.lam]
        dst_lamports == s1.lamports[dst]
        sum == CheckedAdd(dst_lamports, s1.lamports[p], U64_MAX)
    IN
    IF sum = None THEN R("Overflow", s1)
    ELSE R("Ok", [s1 EXCEPT !.lamports = [@ EXCEPT ![dst] = sum,
                                                   ![p] = Zero]])

\* ------------------------------------------------------------- the ledger
\* network, pools, lpts: the program's records; tokens: the token accounts;
\* lamports: the storage deposit of every record and user account (a token
\* account's is in its token record);
\* last: the instruction that was committed last; steps: how many were.
VARIABLES network, pools, lpts, tokens, lamports, last, steps

vars == <<network, pools, lpts, tokens, lamports, last, steps>>

\* Instructions committed in one run.
MaxSteps == 5

\* The account records an instruction is given.
Ledger == [network |-> network, pools |-> pools, lpts |-> lpts,
           tokens |-> tokens, lamports |-> lamports]

Init ==
    /\ network = EmptyNetwork
    /\ pools = [p \in PoolIds |-> EmptyPool]
    /\ lpts = [l \in LptIds |-> EmptyLPT]
    /\ tokens = [a \in TokenAccounts |->
                   IF a[1] = "treasury" THEN UnopenedAccount
                   ELSE IF a[1] = "wallet"
                   THEN [mint |-> a[3], amount |-> N(WalletInit),
                         owner |-> Key(a[2]), lamports |-> N(RentLamports)]
                   ELSE [mint |-> a[2], amount |-> Zero, owner |-> Protocol,
                         lamports |-> N(RentLamports)]]
    /\ lamports = [a \in PoolIds \cup LptIds \cup Users |->
                     IF a \in Users THEN Zero ELSE N(RentLamports)]
    /\ last = [op |-> "none", args |-> <<>>]
    /\ steps = 0

\* The records the host keeps after a handler returned  r : those of a
\* successful handler; a failed handler's writes are discarded.
Committed(r, before) == IF r.err = "Ok" THEN r.s ELSE before

\* One instruction: run the handler, then commit or roll back.  last and
\* steps note the committed instructions only.
Step(op, args, r) ==
    LET after == Committed(r, Ledger) IN
    /\ steps < MaxSteps
    /\ network' = after.network
    /\ pools' = after.pools
    /\ lpts' = after.lpts
    /\ tokens' = after.tokens
    /\ lamports' = after.lamports
    /\ last' = IF r.err = "Ok" THEN [op |-> op, args |-> args] ELSE last
    /\ steps' = IF r.err = "Ok" THEN steps + 1 ELSE steps

\* Whether the ledger is still given instructions: the histories explored
\* are MaxSteps committed instructions long, and the instructions of a state
\* are run on it only while its history is shorter.
Running == steps < MaxSteps

\* ------------------------------------------------------------------ inputs
\* The instructions tried in every state.  Who signs and which addresses are
\* fresh does not matter to the handlers, so pools are created by one user,
\* further LPT accounts and trades come from the other, and fresh addresses
\* are taken in order.  Every input set adds inputs that break one
\* precondition at a time.
PoolCreator == "alice"

Trader == "bob"

PoolOrder == <<"P1", "P2", "P3">>

LptOrder == <<"L1", "L2", "L3">>

\* The first record of the order that is still unused (none when all are).
FirstFree(order, used) ==
    LET free == {i \in 1..Len(order) : order[i] \notin used} IN
    IF free = {} THEN {}
    ELSE {order[CHOOSE i \in free : \A j \in free : i <= j]}

InitPools == {p \in PoolIds : pools[p].is_initialized}

InitLpts == {l \in LptIds : lpts[l].is_initialized}

\* Pool addresses in use: initialized, or named by an LPT account.
UsedPools == InitPools \cup {lpts[l].pool : l \in InitLpts}

FreshPool == FirstFree(PoolOrder, UsedPools)

FreshLpt == FirstFree(LptOrder, InitLpts)

\* Another pool address than p (a wrong treasury or treasurer).
OtherPool(p) == CHOOSE q \in PoolIds : q # p

OtherUser(u) == CHOOSE v \in Users : v # u

SmallAmount == 1

LargeAmount == 3000

SmallLpt == 3

\* <<reserve, lpt>> of a pool's creation.
InitAmounts == {<<N(SmallAmount), N(SmallLpt)>>,
                <<N(LargeAmount), N(SmallLpt)>>,
                <<N(LargeAmount), U128_MAX>>}

InitializeNetworkInputs ==
    {[signed |-> sg, mints |-> m] : sg \in BOOLEAN, m \in NetworkMintArgs}

PoolInput(o, sg, p, ty, l, src, m, tr, reserve, lpt) ==
    [owner |-> o, signed |-> sg, pool |-> p, treasury |-> ty, lpt_acc |-> l,
     src |-> src, mint |-> m, treasurer |-> tr, reserve |-> reserve,
     lpt |-> lpt]

\* A pool created by the pool creator from the creator's wallet, with the
\* custody account at the pool's own custody address.
OwnPoolInput(sg, p, l, m, tr, reserve, lpt) ==
    PoolInput(PoolCreator, sg, p, Treasury(p), l, Wallet(PoolCreator, m), m,
              tr, reserve, lpt)

InitializePoolInputs ==
    {OwnPoolInput(TRUE, p, l, m, Treasurer(p), a[1], a[2]) :
        p \in FreshPool, l \in FreshLpt, m \in {PRIMARY, "A"},
        a \in InitAmounts}
    \cup {OwnPoolInput(TRUE, p, l, "A", Treasurer(p), N(LargeAmount),
                        N(SmallLpt)) :
            p \in InitPools, l \in FreshLpt}
    \cup {OwnPoolInput(TRUE, p, l, "A", Treasurer(p), N(LargeAmount),
                        N(SmallLpt)) :
            p \in FreshPool, l \in InitLpts}
    \cup UNION {{OwnPoolInput(FALSE, p, l, "A", Treasurer(p), N(LargeAmount),
                              N(SmallLpt)),
                 OwnPoolInput(TRUE, p, l, "A", Treasurer(OtherPool(p)),
                              N(LargeAmount), N(SmallLpt)),
                 OwnPoolInput(TRUE, p, l, "B", Treasurer(p), N(LargeAmount),
                              N(SmallLpt)),
                 OwnPoolInput(TRUE, p, l, "A", Treasurer(p), Zero,
                              N(SmallLpt)),
                 OwnPoolInput(TRUE, p, l, "A", Treasurer(p), N(SmallAmount),
                              Zero),
                 PoolInput(PoolCreator, TRUE, p, Treasury(p), l,
                           Wallet(OtherUser(PoolCreator), "A"), "A",
                           Treasurer(p), N(LargeAmount), N(SmallLpt))}
                 : p \in FreshPool, l \in FreshLpt}
    \cup {PoolInput(PoolCreator, TRUE, p, pools[q].treasury, l,
                    Wallet(PoolCreator, "A"), "A", Treasurer(p),
                    N(LargeAmount), N(SmallLpt)) :
            p \in FreshPool, l \in FreshLpt, q \in InitPools}

InitializeLPTInputs ==
    {[owner |-> Trader, signed |-> TRUE, pool |-> p, lpt_acc |-> l] :
        p \in InitPools \cup FreshPool, l \in FreshLpt}
    \cup {[owner |-> Trader, signed |-> sg, pool |-> p, lpt_acc |-> l] :
            sg \in BOOLEAN, p \in FreshPool, l \in InitLpts \cup FreshLpt}

AddInput(o, sg, p, ty, l, src, amount) ==
    [owner |-> o, signed |-> sg, pool |-> p, treasury |-> ty, lpt_acc |-> l,
     src |-> src, amount |-> amount]

\* The inputs of AddLiquidity on LPT account  l : the owner's deposits from
\* the owner's wallet, and for one amount the inputs that break a
\* precondition or pass another source account.
AddInputs(l, main, dev) ==
    LET o == lpts[l].owner
        p == lpts[l].pool
        w == Wallet(o, pools[p].mint)
    IN  {AddInput(o, TRUE, p, pools[p].treasury, l, w, x) : x \in main \cup {Zero}}
        \cup {AddInput(o, FALSE, p, pools[p].treasury, l, w, dev),
              AddInput(OtherUser(o), TRUE, p, pools[p].treasury, l,
                       Wallet(OtherUser(o), pools[p].mint), dev),
              AddInput(o, TRUE, p, Treasury(OtherPool(p)), l, w, dev),
              AddInput(o, TRUE, p, pools[p].treasury, l,
                       Wallet(OtherUser(o), pools[p].mint), dev)}
        \cup {AddInput(o, TRUE, q, pools[q].treasury, l,
                       Wallet(o, pools[q].mint), dev) : q \in InitPools \ {p}}

AddLiquidityInputs ==
    UNION {AddInputs(l, {N(SmallAmount), N(LargeAmount)}, N(SmallAmount)) :
             l \in InitLpts}

RemoveInput(o, sg, p, ty, l, dst, tr, amount) ==
    [owner |-> o, signed |-> sg, pool |-> p, treasury |-> ty, lpt_acc |-> l,
     dst |-> dst, treasurer |-> tr, amount |-> amount]

\* Token accounts of a pool's mint other than the signer's wallet that a
\* payout is sent to: the pool's own custody account and another user's
\* wallet.
OtherDestinations(o, p) ==
    {pools[p].treasury, Wallet(OtherUser(o), pools[p].mint)}

\* The inputs of RemoveLiquidity on LPT account  l : the owner's withdrawals
\* to the owner's wallet, and for one amount the inputs that break a
\* precondition or pass another destination account.
RemoveInputs(l, main, dev) ==
    LET o == lpts[l].owner
        p == lpts[l].pool
        w == Wallet(o, pools[p].mint)
    IN  {RemoveInput(o, TRUE, p, pools[p].treasury, l, w, Treasurer(p), x) :
            x \in main \cup {Zero}}
        \cup {RemoveInput(o, FALSE, p, pools[p].treasury, l, w, Treasurer(p),
                          dev),
              RemoveInput(OtherUser(o), TRUE, p, pools[p].treasury, l,
                          Wallet(OtherUser(o), pools[p].mint), Treasurer(p),
                          dev),
              RemoveInput(o, TRUE, p, Treasury(OtherPool(p)), l, w,
                          Treasurer(p), dev),
              RemoveInput(o, TRUE, p, pools[p].treasury, l, w,
                          Treasurer(OtherPool(p)), dev)}
        \cup {RemoveInput(o, TRUE, q, pools[q].treasury, l,
                          Wallet(o, pools[q].mint), Treasurer(q), dev) :
                q \in InitPools \ {p}}
        \cup (IF p \in InitPools
              THEN {RemoveInput(o, TRUE, p, pools[p].treasury, l, d,
                                Treasurer(p), dev) :
                      d \in OtherDestinations(o, p)}
              ELSE {})

\* Share amounts tried against an account holding  have.
LptAmounts(have) == {One, have}
                        \cup (IF Less(have, U128_MAX) THEN {Plus(have, One)}
                              ELSE {})

RemoveLiquidityInputs ==
    UNION {RemoveInputs(l, LptAmounts(lpts[l].lpt), One) : l \in InitLpts}

SwapInput(o, sg, bid, bty, src, ask, aty, dst, atr, sen, sty, vault, str, amount) ==
    [owner |-> o, signed |-> sg, bid |-> bid, bid_treasury |-> bty,
     src |-> src, ask |-> ask, ask_treasury |-> aty, dst |-> dst,
     ask_treasurer |-> atr, sen |-> sen, sen_treasury |-> sty,
     vault |-> vault, sen_treasurer |-> str, amount |-> amount]

\* A trade of the trader's between the trader's own wallets, the earn going
\* to the protocol vault of the settlement pool's mint.
OwnSwapInput(sg, bid, bty, ask, aty, atr, sen, sty, str, amount) ==
    SwapInput(Trader, sg, bid, bty, Wallet(Trader, pools[bid].mint), ask, aty,
              Wallet(Trader, pools[ask].mint), atr, sen, sty,
              Vault(pools[sen].mint), str, amount)

\* A trade with the accounts the records name, paid from  src , paid out to
\* dst  and with the earn paid to  vault.
RoutedSwapInput(bid, src, ask, dst, sen, vault, amount) ==
    SwapInput(Trader, TRUE, bid, pools[bid].treasury, src, ask,
              pools[ask].treasury, dst, Treasurer(ask), sen,
              pools[sen].treasury, vault, Treasurer(sen), amount)

\* <<bid, ask>> of the trades between two pools.
TradedPairs ==
    {pr \in InitPools \X InitPools : pr[1] # pr[2]}

\* The earn apply_fee returns for a trade of  amount  (0 when the trade
\* overflows).
EarnOfTrade(bid, ask, amount) ==
    ApplyFee(Curve(CheckedAdd(pools[bid].reserve, amount, U64_MAX),
                   pools[bid].reserve, pools[bid].lpt, pools[ask].reserve,
                   pools[ask].lpt),
             pools[ask].reserve, pools[ask].mint = PRIMARY).earn

\* The trades of LargeAmount that reach the earn step, the only step that
\* uses the vault account.
EarningPairs ==
    {pr \in TradedPairs :
        EarnOfTrade(pr[1], pr[2], N(LargeAmount)) # Zero}

SwapInputs ==
    {OwnSwapInput(TRUE, bid, pools[bid].treasury, ask, pools[ask].treasury,
                  Treasurer(ask), sen, pools[sen].treasury, Treasurer(sen),
                  N(LargeAmount)) :
        bid \in InitPools, ask \in InitPools, sen \in InitPools}
    \cup {OwnSwapInput(TRUE, bid, pools[bid].treasury, ask,
                       pools[ask].treasury, Treasurer(ask), bid,
                       pools[bid].treasury, Treasurer(bid), N(SmallAmount)) :
            bid \in InitPools, ask \in InitPools}
    \cup UNION {{
        OwnSwapInput(TRUE, bid, pools[bid].treasury, ask,
                     pools[ask].treasury, Treasurer(ask), bid,
                     pools[bid].treasury, Treasurer(bid), Zero),
        OwnSwapInput(TRUE, bid, pools[bid].treasury, ask,
                     pools[ask].treasury, Treasurer(ask), bid,
                     pools[bid].treasury, Treasurer(bid), U64_MAX),
        OwnSwapInput(FALSE, bid, pools[bid].treasury, ask,
                     pools[ask].treasury, Treasurer(ask), bid,
                     pools[bid].treasury, Treasurer(bid), N(SmallAmount)),
        OwnSwapInput(TRUE, bid, pools[ask].treasury, ask,
                     pools[ask].treasury, Treasurer(ask), bid,
                     pools[bid].treasury, Treasurer(bid), N(SmallAmount)),
        OwnSwapInput(TRUE, bid, pools[bid].treasury, ask,
                     pools[ask].treasury, Treasurer(bid), bid,
                     pools[bid].treasury, Treasurer(bid), N(SmallAmount)),
        OwnSwapInput(TRUE, bid, pools[bid].treasury, ask,
                     pools[ask].treasury, Treasurer(ask), bid,
                     pools[bid].treasury, Treasurer(ask), N(SmallAmount)),
        RoutedSwapInput(bid, Wallet(OtherUser(Trader), pools[bid].mint), ask,
                        Wallet(Trader, pools[ask].mint), bid,
                        Vault(pools[bid].mint), N(LargeAmount))}
        : bid \in InitPools, ask \in InitPools}
    \cup {RoutedSwapInput(pr[1], Wallet(Trader, pools[pr[1]].mint), pr[2],
                           pools[pr[2]].treasury, pr[1],
                           Vault(pools[pr[1]].mint), N(LargeAmount)) :
            pr \in TradedPairs}
    \cup UNION {{
        RoutedSwapInput(pr[1], Wallet(Trader, pools[pr[1]].mint), pr[2],
                        Wallet(Trader, pools[pr[2]].mint), sen,
                        Wallet(Trader, pools[sen].mint), N(LargeAmount)),
        RoutedSwapInput(pr[1], Wallet(Trader, pools[pr[1]].mint), pr[2],
                        Wallet(Trader, pools[pr[2]].mint), sen,
                        pools[sen].treasury, N(LargeAmount))}
        : pr \in EarningPairs, sen \in InitPools}

TransferInputs ==
    UNION {{[owner |-> lpts[src].owner, signed |-> TRUE, src |-> src,
             dst |-> dst, lpt |-> x] :
               dst \in InitLpts, x \in LptAmounts(lpts[src].lpt)} :
             src \in InitLpts}
    \cup UNION {{[owner |-> lpts[src].owner, signed |-> FALSE, src |-> src,
                   dst |-> dst, lpt |-> One],
                  [owner |-> OtherUser(lpts[src].owner), signed |-> TRUE,
                   src |-> src, dst |-> dst, lpt |-> One],
                  [owner |-> lpts[src].owner, signed |-> TRUE, src |-> src,
                   dst |-> dst, lpt |-> Zero]} :
                    src \in InitLpts, dst \in InitLpts}

\* The account credited with a closed record's lamports is the signer's or
\* another user's: the handlers take it as passed.
CloseLPTInputs ==
    {[owner |-> o, signed |-> sg, lpt_acc |-> l, dst |-> o] :
        o \in Users, sg \in BOOLEAN, l \in InitLpts}
    \cup {[owner |-> lpts[l].owner, signed |-> TRUE, lpt_acc |-> l,
           dst |-> OtherUser(lpts[l].owner)] : l \in InitLpts}

ClosePoolInputs ==
    {[owner |-> o, signed |-> TRUE, pool |-> p, treasury |-> pools[p].treasury,
      treasurer |-> Treasurer(p), dst |-> o] : o \in Users, p \in InitPools}
    \cup {[owner |-> pools[p].owner, signed |-> TRUE, pool |-> p,
           treasury |-> pools[p].treasury, treasurer |-> Treasurer(p),
           dst |-> OtherUser(pools[p].owner)] : p \in InitPools}
    \cup UNION {{
        [owner |-> PoolCreator, signed |-> FALSE, pool |-> p,
         treasury |-> pools[p].treasury, treasurer |-> Treasurer(p),
         dst |-> PoolCreator],
        [owner |-> PoolCreator, signed |-> TRUE, pool |-> p,
         treasury |-> Treasury(OtherPool(p)), treasurer |-> Treasurer(p),
         dst |-> PoolCreator],
        [owner |-> PoolCreator, signed |-> TRUE, pool |-> p,
         treasury |-> pools[p].treasury,
         treasurer |-> Treasurer(OtherPool(p)), dst |-> PoolCreator]}
        : p \in InitPools}

\* ------------------------------------------------- the handlers on an input
RunInitializeNetwork(s, i) == InitializeNetwork(s, i.signed, i.mints)

RunInitializePool(s, i) ==
    InitializePool(s, i.owner, i.signed, i.pool, i.treasury, i.lpt_acc, i.src,
                   i.mint, i.treasurer, i.reserve, i.lpt)

RunInitializeLPT(s, i) ==
    InitializeLPT(s, i.owner, i.signed, i.pool, i.lpt_acc)

RunAddLiquidity(s, i) ==
    AddLiquidity(s, i.owner, i.signed, i.pool, i.treasury, i.lpt_acc, i.src,
                 i.amount)

RunRemoveLiquidity(s, i) ==
    RemoveLiquidity(s, i.owner, i.signed, i.pool, i.treasury, i.lpt_acc,
                    i.dst, i.treasurer, i.amount)

RunSwap(s, i) ==
    Swap(s, i.owner, i.signed, i.bid, i.bid_treasury, i.src, i.ask,
         i.ask_treasury, i.dst, i.ask_treasurer, i.sen, i.sen_treasury,
         i.vault, i.sen_treasurer, i.amount)

RunTransfer(s, i) == Transfer(s, i.owner, i.signed, i.src, i.dst, i.lpt)

RunCloseLPT(s, i) == CloseLPT(s, i.owner, i.signed, i.lpt_acc, i.dst)

RunClosePool(s, i) ==
    ClosePool(s, i.owner, i.signed, i.pool, i.treasury, i.treasurer, i.dst)

\* ----------------------------------------------------------------- actions
DoInitializeNetwork ==
    \E i \in InitializeNetworkInputs :
        Step("InitializeNetwork", i, RunInitializeNetwork(Ledger, i))

DoInitializePool ==
    \E i \in InitializePoolInputs :
        Step("InitializePool", i, RunInitializePool(Ledger, i))

DoInitializeLPT ==
    \E i \in InitializeLPTInputs :
        Step("InitializeLPT", i, RunInitializeLPT(Ledger, i))

DoAddLiquidity ==
    \E i \in AddLiquidityInputs :
        Step("AddLiquidity", i, RunAddLiquidity(Ledger, i))

DoRemoveLiquidity ==
    \E i \in RemoveLiquidityInputs :
        Step("RemoveLiquidity", i, RunRemoveLiquidity(Ledger, i))

DoSwap == \E i \in SwapInputs : Step("Swap", i, RunSwap(Ledger, i))

DoTransfer ==
    \E i \in TransferInputs : Step("Transfer", i, RunTransfer(Ledger, i))

DoCloseLPT ==
    \E i \in CloseLPTInputs : Step("CloseLPT", i, RunCloseLPT(Ledger, i))

DoClosePool ==
    \E i \in ClosePoolInputs : Step("ClosePool", i, RunClosePool(Ledger, i))

Next ==
    \/ DoInitializeNetwork
    \/ DoInitializePool
    \/ DoInitializeLPT
    \/ DoAddLiquidity
    \/ DoRemoveLiquidity
    \/ DoSwap
    \/ DoTransfer
    \/ DoCloseLPT
    \/ DoClosePool

Spec == Init /\ [][Next]_vars


\* ================================================================== claims
\* Sum of the lpt balances of the LPT accounts in  S  bound to pool  p.
RECURSIVE SharesIn(_, _, _)
SharesIn(ls, p, S) ==
    IF S = {} THEN Zero
    ELSE LET l == CHOOSE x \in S : TRUE
         IN  Plus(IF ls[l].pool = p THEN ls[l].lpt ELSE Zero,
                  SharesIn(ls, p, S \ {l}))

BoundShares(ls, p) == SharesIn(ls, p, LptIds)

\* C1 (share accounting): in every reachable state, for every pool P, P.lpt
\* equals the sum of the lpt balances of all LPT accounts whose pool is P.
C1_ShareAccounting ==
    \A p \in PoolIds : pools[p].lpt = BoundShares(lpts, p)

\* A pool whose shares are split over two accounts after a Transfer.
C1_Witness ==
    /\ last.op = "Transfer"
    /\ \E a \in LptIds, b \in LptIds :
          /\ a # b
          /\ lpts[a].pool = lpts[b].pool
          /\ lpts[a].lpt # Zero
          /\ lpts[b].lpt # Zero

\* The reserve changes a committed Swap applied, from the records before it:
\* the fee split of the ask side and the earn priced in the settlement pool.
SwapFee(i) ==
    ApplyFee(Curve(Plus(pools[i.bid].reserve, i.amount), pools[i.bid].reserve,
                   pools[i.bid].lpt, pools[i.ask].reserve, pools[i.ask].lpt),
             pools[i.ask].reserve, pools[i.ask].mint = PRIMARY)

SwapNewAsk(i) == Plus(SwapFee(i).new_ask_reserve_with_fee, SwapFee(i).earn)

SwapEarnInSen(i) ==
    IF SwapFee(i).earn = Zero THEN Zero
    ELSE Curve(SwapNewAsk(i), SwapFee(i).new_ask_reserve_with_fee,
               pools[i.ask].lpt, pools[i.sen].reserve, pools[i.sen].lpt)

\* What the swap adds to the reserve of pool  x : the deposit of the bid
\* pool and the new reserve of the ask pool.
SwapReserveGain(i, x) ==
    Plus(IF x = i.bid THEN i.amount ELSE Zero,
         IF x = i.ask THEN SwapNewAsk(i) ELSE Zero)

\* What the swap takes from the reserve of pool  x : the old reserve of the
\* ask pool and the earn of the settlement pool.
SwapReserveLoss(i, x) ==
    Plus(IF x = i.ask THEN pools[i.ask].reserve ELSE Zero,
         IF x = i.sen THEN SwapEarnInSen(i) ELSE Zero)

\* C2 (one copy per record): after a Swap between two pools, the reserve
\* stored for each of the bid, ask and settlement pools reflects every
\* reserve change the swap applied to that pool, also when the settlement
\* pool is the bid or the ask pool.
C2_SwapWritesEachPoolOnce ==
    [][(last'.op = "Swap" /\ last'.args.bid # last'.args.ask)
         => \A x \in {last'.args.bid, last'.args.ask, last'.args.sen} :
              Plus(pools'[x].reserve, SwapReserveLoss(last'.args, x))
                  = Plus(pools[x].reserve, SwapReserveGain(last'.args, x))]_vars

\* C3 (reserve and shares vanish together): every initialized pool has
\* reserve = 0 and lpt = 0, or reserve > 0 and lpt > 0.
C3_ReserveAndLptVanishTogether ==
    \A p \in PoolIds :
        pools[p].is_initialized =>
            \/ pools[p].reserve = Zero /\ pools[p].lpt = Zero
            \/ pools[p].reserve # Zero /\ pools[p].lpt # Zero

\* Whether the true product a * b fits max.
ProductFits(a, b, max) == AtMost(Times(a, b), max)

PrecheckErrors == {"UninitializedAccount", "InvalidOwner", "UnmatchedPool",
                   "ZeroValue", "InsufficientFunds", "IncorrectNetworkId"}

\* AddLiquidity: the true results fit exactly when the handler succeeds, and
\* the stored values are the true results.
C4_Add(i) ==
    LET r == RunAddLiquidity(Ledger, i)
        P == pools[i.pool]
        A == lpts[i.lpt_acc]
        minted == Quot(Times(P.lpt, i.amount), P.reserve)
        fits == /\ ProductFits(P.lpt, i.amount, U128_MAX)
                /\ P.reserve # Zero
                /\ AtMost(Plus(P.reserve, i.amount), U64_MAX)
                /\ AtMost(Plus(P.lpt, minted), U128_MAX)
                /\ AtMost(Plus(A.lpt, minted), U128_MAX)
    IN  /\ r.err \in {"Ok", "Overflow"} => (r.err = "Ok" <=> fits)
        /\ r.err = "Ok" =>
              /\ r.s.pools[i.pool].reserve = Plus(P.reserve, i.amount)
              /\ r.s.pools[i.pool].lpt = Plus(P.lpt, minted)
              /\ r.s.lpts[i.lpt_acc].lpt = Plus(A.lpt, minted)

\* RemoveLiquidity: as for AddLiquidity; the payout narrowed to u64 is the
\* true quotient, which is what moves between the treasury and another
\* destination account.
C4_Remove(i) ==
    LET r == RunRemoveLiquidity(Ledger, i)
        P == pools[i.pool]
        A == lpts[i.lpt_acc]
        payout == Quot(Times(P.reserve, i.amount), P.lpt)
        fits == /\ ProductFits(P.reserve, i.amount, U128_MAX)
                /\ P.lpt # Zero
                /\ AtMost(payout, U64_MAX)
                /\ AtMost(payout, P.reserve)
                /\ AtMost(i.amount, P.lpt)
                /\ AtMost(i.amount, A.lpt)
    IN  /\ r.err \notin PrecheckErrors =>
              (r.err \in {"Ok", "TokenError"} <=> fits)
        /\ r.err = "Ok" =>
              /\ r.s.pools[i.pool].reserve = Minus(P.reserve, payout)
              /\ r.s.pools[i.pool].lpt = Minus(P.lpt, i.amount)
              /\ r.s.lpts[i.lpt_acc].lpt = Minus(A.lpt, i.amount)
              /\ i.dst # i.treasury =>
                    /\ Plus(r.s.tokens[i.treasury].amount, payout)
                          = tokens[i.treasury].amount
                    /\ r.s.tokens[i.dst].amount
                          = Plus(tokens[i.dst].amount, payout)

\* Swap: the bid reserve never wraps, and fee, earn and payout are the true
\* (un-narrowed) results, the payout being what the destination account
\* gains when it is none of the other accounts of the trade.
C4_Swap(i) ==
    LET r == RunSwap(Ledger, i)
        B == pools[i.bid]
        K == pools[i.ask]
        new_bid == Plus(B.reserve, i.amount)
        new_ask == Quot(Times(B.reserve, K.reserve), new_bid)
        gross == Minus(K.reserve, new_ask)
        fee  == Quot(Times(gross, N(FEE)), N(FEE_DECIMALS))
        earn == IF K.mint = PRIMARY THEN Zero
                ELSE Quot(Times(gross, N(EARN)), N(FEE_DECIMALS))
    IN  /\ (r.err = "Overflow" /\ r.s = Ledger) =>
              \/ Less(U64_MAX, new_bid)
              \/ new_bid = Zero
              \/ ~ProductFits(B.reserve, K.reserve, U128_MAX)
        /\ (r.err = "Ok" /\ i.bid # i.ask) =>
              /\ AtMost(new_bid, U64_MAX)
              /\ AtMost(new_ask, K.reserve)
              /\ AtMost(fee, U64_MAX)
              /\ AtMost(earn, U64_MAX)
              /\ AtMost(Plus(fee, earn), gross)
              /\ i.dst \notin {i.bid_treasury, i.ask_treasury,
                              i.sen_treasury, i.vault} =>
                    Plus(r.s.tokens[i.dst].amount,
                         IF i.src = i.dst THEN i.amount ELSE Zero)
                        = Plus(tokens[i.dst].amount,
                               Minus(gross, Plus(fee, earn)))

\* Transfer: the debit never goes below zero and the credit never wraps.
C4_Transfer(i) ==
    LET r == RunTransfer(Ledger, i) IN
    (r.err = "Ok" /\ i.src # i.dst) =>
        /\ AtMost(i.lpt, lpts[i.src].lpt)
        /\ AtMost(Plus(lpts[i.dst].lpt, i.lpt), U128_MAX)
        /\ r.s.lpts[i.src].lpt = Minus(lpts[i.src].lpt, i.lpt)
        /\ r.s.lpts[i.dst].lpt = Plus(lpts[i.dst].lpt, i.lpt)

\* C4 (no silent wraparound or truncation): an arithmetic step of
\* AddLiquidity, RemoveLiquidity, Swap or Transfer whose true result does not
\* fit makes the instruction fail with Overflow, and every value a successful
\* instruction stores or transfers is the true result, the values narrowed
\* from u128 to u64 included.
C4_NoSilentWraparound ==
    Running =>
        /\ \A i \in AddLiquidityInputs : C4_Add(i)
        /\ \A i \in RemoveLiquidityInputs : C4_Remove(i)
        /\ \A i \in SwapInputs : C4_Swap(i)
        /\ \A i \in TransferInputs : C4_Transfer(i)

\* A pool whose share supply is the largest u128: depositing into it
\* overflows the minted-share arithmetic.
C4_Witness ==
    \E i \in AddLiquidityInputs :
        /\ RunAddLiquidity(Ledger, i).err = "Overflow"
        /\ pools[i.pool].lpt = U128_MAX

\* ------------------------------------------------- apply_fee on its own
\* The smallest gross amounts whose fee and earn shares reach 1.
FeeUnit == FEE_DECIMALS \div FEE

EarnUnit == FEE_DECIMALS \div EARN

\* Reserves apply_fee is called with.
FeeArgs == {N(0), N(1), N(FeeUnit - 1), N(FeeUnit), N(FeeUnit + 1),
            N(EarnUnit - 1), N(EarnUnit), N(EarnUnit + 1),
            N(EarnUnit + FeeUnit), Minus(U64_MAX, One), U64_MAX}

FeeInit ==
    /\ network = EmptyNetwork
    /\ pools = [p \in PoolIds |-> EmptyPool]
    /\ lpts = [l \in LptIds |-> EmptyLPT]
    /\ tokens = [a \in TokenAccounts |-> ClosedAccount]
    /\ lamports = [a \in PoolIds \cup LptIds \cup Users |-> Zero]
    /\ steps = 0
    /\ last \in {[op |-> "call_apply_fee",
                  args |-> [new_ask_reserve |-> n, ask_reserve |-> o,
                            is_primary |-> b]] :
                    n \in FeeArgs, o \in FeeArgs, b \in BOOLEAN}

FeeNext ==
    /\ last.op = "call_apply_fee"
    /\ last' = [op |-> "apply_fee", args |-> last.args,
                result |-> ApplyFee(last.args.new_ask_reserve,
                                    last.args.ask_reserve,
                                    last.args.is_primary)]
    /\ UNCHANGED <<network, pools, lpts, tokens, lamports, steps>>

FeeSpec == FeeInit /\ [][FeeNext]_vars

\* The gross amount of a call that returned a result (new_ask_reserve is at
\* most ask_reserve then).
FeeGross == Minus(last.args.ask_reserve, last.args.new_ask_reserve)

\* C6 as stated (fee monotonicity): every call of apply_fee with is_primary
\* false and gross > 0 returns fee + earn > 0, and every call with is_primary
\* true returns earn = 0.
C6_FeePositiveForAnyGross ==
    (last.op = "apply_fee" /\ last.result.some) =>
        /\ (~last.args.is_primary /\ FeeGross # Zero)
              => Plus(last.result.fee, last.result.earn) # Zero
        /\ last.args.is_primary => last.result.earn = Zero

\* C6 as amended: every call of apply_fee with is_primary false and
\* gross >= FEE_DECIMALS / FEE (= 400) returns fee + earn > 0, a call with
\* 0 < gross < 400 returns fee + earn = 0, and every call with is_primary
\* true returns earn = 0.
C6_FeePositiveFromFeeUnit ==
    (last.op = "apply_fee" /\ last.result.some) =>
        /\ (~last.args.is_primary /\ AtMost(N(FeeUnit), FeeGross))
              => Plus(last.result.fee, last.result.earn) # Zero
        /\ Less(FeeGross, N(FeeUnit))
              => Plus(last.result.fee, last.result.earn) = Zero
        /\ last.args.is_primary => last.result.earn = Zero

\* apply_fee returned for a non-primary target and a gross amount of at
\* least 400.
C6_Witness ==
    /\ last.op = "apply_fee"
    /\ last.result.some
    /\ ~last.args.is_primary
    /\ AtMost(N(FeeUnit), FeeGross)
    /\ last.result.fee # Zero

\* C7 (apply_fee): apply_fee fails when new_reserve_without_fee > old_reserve
\* and otherwise returns (new_reserve_without_fee + fee, gross - fee - earn,
\* fee, earn) with fee = floor(gross * 2_500_000 / 1_000_000_000) and
\* earn = 0 if is_primary else floor(gross * 500_000 / 1_000_000_000), so
\* payout + fee + earn = gross.  (The two rates are written in lowest terms
\* over 10_000: 25 / 10_000 and 5 / 10_000.)
C7_ApplyFee ==
    last.op = "apply_fee" =>
        LET a == last.args
            res == last.result
            fee == Quot(Times(FeeGross, N(25)), N(10000))
            earn == IF a.is_primary THEN Zero
                    ELSE Quot(Times(FeeGross, N(5)), N(10000))
        IN  IF Less(a.ask_reserve, a.new_ask_reserve) THEN ~res.some
            ELSE /\ res.some
                 /\ res.fee = fee
                 /\ res.earn = earn
                 /\ res.new_ask_reserve_with_fee = Plus(a.new_ask_reserve, fee)
                 /\ AtMost(Plus(fee, earn), FeeGross)
                 /\ res.paid_amount_with_fee
                       = Minus(FeeGross, Plus(fee, earn))
                 /\ Plus(res.paid_amount_with_fee, Plus(res.fee, res.earn))
                       = FeeGross

\* apply_fee returned a non-zero fee and a non-zero earn.
C7_Witness ==
    /\ last.op = "apply_fee"
    /\ last.result.some
    /\ last.result.fee # Zero
    /\ last.result.earn # Zero

\* ------------------------------------------------ liquidity, step by step
\* C8 (AddLiquidity): a committed AddLiquidity(reserve) on pool P and LPT
\* account A (A bound to P and owned by the signer, reserve > 0) mints
\* minted = floor(P.lpt * reserve / P.reserve) from the records before it:
\* P.reserve grows by reserve, P.lpt and A.lpt grow by minted, and exactly
\* reserve tokens move from the source account into P's treasury.
C8_AddLiquidity ==
    [][last'.op = "AddLiquidity" =>
        LET i == last'.args
            P == pools[i.pool]
            A == lpts[i.lpt_acc]
            T == P.treasury
            W == i.src
            minted == Quot(Times(P.lpt, i.amount), P.reserve)
        IN  /\ A.pool = i.pool /\ A.owner = i.owner /\ i.signed
            /\ i.amount # Zero
            /\ P.reserve # Zero
            /\ pools'[i.pool] = [P EXCEPT !.reserve = Plus(P.reserve, i.amount),
                                          !.lpt = Plus(P.lpt, minted)]
            /\ lpts'[i.lpt_acc] = [A EXCEPT !.lpt = Plus(A.lpt, minted)]
            /\ tokens'[T].amount = Plus(tokens[T].amount, i.amount)
            /\ Plus(tokens'[W].amount, i.amount) = tokens[W].amount
            /\ \A q \in PoolIds \ {i.pool} : pools'[q] = pools[q]
            /\ \A l \in LptIds \ {i.lpt_acc} : lpts'[l] = lpts[l]]_vars

\* A deposit that minted shares, at a ratio other than one share per token.
C8_Witness ==
    /\ last.op = "AddLiquidity"
    /\ Less(N(SmallLpt), pools[last.args.pool].lpt)
    /\ pools[last.args.pool].lpt # pools[last.args.pool].reserve

\* C9 (RemoveLiquidity): a committed RemoveLiquidity(lpt) on pool P and LPT
\* account A (A bound to P and owned by the signer, 0 < lpt <= A.lpt) pays
\* payout = floor(P.reserve * lpt / P.lpt) from the records before it: A.lpt
\* and P.lpt shrink by lpt, P.reserve shrinks by payout, and exactly payout
\* tokens move from P's treasury to the destination account.
C9_RemoveLiquidity ==
    [][last'.op = "RemoveLiquidity" =>
        LET i == last'.args
            P == pools[i.pool]
            A == lpts[i.lpt_acc]
            T == P.treasury
            W == i.dst
            payout == Quot(Times(P.reserve, i.amount), P.lpt)
        IN  /\ A.pool = i.pool /\ A.owner = i.owner /\ i.signed
            /\ i.amount # Zero /\ AtMost(i.amount, A.lpt)
            /\ AtMost(i.amount, P.lpt) /\ AtMost(payout, P.reserve)
            /\ pools'[i.pool] = [P EXCEPT !.reserve = Minus(P.reserve, payout),
                                          !.lpt = Minus(P.lpt, i.amount)]
            /\ lpts'[i.lpt_acc] = [A EXCEPT !.lpt = Minus(A.lpt, i.amount)]
            /\ Plus(tokens'[T].amount, payout) = tokens[T].amount
            /\ tokens'[W].amount = Plus(tokens[W].amount, payout)
            /\ \A q \in PoolIds \ {i.pool} : pools'[q] = pools[q]
            /\ \A l \in LptIds \ {i.lpt_acc} : lpts'[l] = lpts[l]]_vars

\* C10 (rounding favours the pool): every committed AddLiquidity or
\* RemoveLiquidity that leaves lpt' > 0 does not lower the reserve per share:
\* reserve' * lpt >= reserve * lpt'.
C10_RoundingFavoursPool ==
    [][(last'.op \in {"AddLiquidity", "RemoveLiquidity"}
        /\ pools'[last'.args.pool].lpt # Zero)
        => LET P == pools[last'.args.pool]
               Q == pools'[last'.args.pool]
           IN  /\ P.lpt # Zero
               /\ AtMost(Times(P.reserve, Q.lpt),
                         Times(Q.reserve, P.lpt))]_vars

\* A deposit or withdrawal that left fewer than SmallLpt shares standing
\* against more than their proportional part of LargeAmount.
C10_Witness ==
    /\ last.op \in {"AddLiquidity", "RemoveLiquidity"}
    /\ pools[last.args.pool].lpt # Zero
    /\ Less(pools[last.args.pool].lpt, N(SmallLpt))
    /\ Less(N(LargeAmount \div SmallLpt + 1), pools[last.args.pool].reserve)
\* ------------------------------------------------------ balances and no-ops
\* Whether RemoveLiquidity's checks before the balance check pass on  i.
RemovePrechecks(i) ==
    /\ pools[i.pool].is_initialized
    /\ lpts[i.lpt_acc].is_initialized
    /\ i.signed
    /\ pools[i.pool].treasury = i.treasury
    /\ lpts[i.lpt_acc].owner = i.owner
    /\ Treasurer(i.pool) = i.treasurer
    /\ lpts[i.lpt_acc].pool = i.pool
    /\ i.amount # Zero

\* Whether Transfer's checks before the balance check pass on  i.
TransferPrechecks(i) ==
    /\ lpts[i.src].is_initialized
    /\ lpts[i.dst].is_initialized
    /\ i.signed
    /\ lpts[i.src].owner = i.owner
    /\ lpts[i.src].pool = lpts[i.dst].pool
    /\ i.lpt # Zero

\* In the current ledger: asking for more shares than the account holds
\* fails with InsufficientFunds and writes nothing, and every balance is a
\* number (an unsigned value, none below zero).
NoNegativeBalances ==
    /\ \A i \in IF Running THEN RemoveLiquidityInputs ELSE {} :
          (RemovePrechecks(i) /\ Less(lpts[i.lpt_acc].lpt, i.amount)) =>
              LET r == RunRemoveLiquidity(Ledger, i)
              IN  r.err = "InsufficientFunds" /\ r.s = Ledger
    /\ \A i \in IF Running THEN TransferInputs ELSE {} :
          (TransferPrechecks(i) /\ Less(lpts[i.src].lpt, i.lpt)) =>
              LET r == RunTransfer(Ledger, i)
              IN  r.err = "InsufficientFunds" /\ r.s = Ledger
    /\ \A l \in LptIds : IsNumber(lpts[l].lpt)

\* C11 (no negative balances): RemoveLiquidity(lpt) with lpt > account.lpt
\* and Transfer(lpt) with lpt > src.lpt, lpt > 0 and the other checks
\* passing, fail with InsufficientFunds having written no pool, LPT account
\* or token balance; and no LPT account balance is below zero.
C11_NoNegativeBalances == NoNegativeBalances

\* An account holding shares is asked, by its owner, for one share more than
\* it holds, both by RemoveLiquidity and by Transfer to another account.
C11_Witness ==
    /\ \E i \in RemoveLiquidityInputs :
          /\ RemovePrechecks(i)
          /\ lpts[i.lpt_acc].lpt # Zero
          /\ i.amount = Plus(lpts[i.lpt_acc].lpt, One)
    /\ \E i \in TransferInputs :
          /\ TransferPrechecks(i)
          /\ i.src # i.dst
          /\ lpts[i.src].lpt # Zero
          /\ i.lpt = Plus(lpts[i.src].lpt, One)

\* Whether Swap's checks before the early return pass on  i.
SwapPrechecks(i) ==
    /\ pools[i.bid].is_initialized
    /\ pools[i.ask].is_initialized
    /\ pools[i.sen].is_initialized
    /\ i.signed
    /\ pools[i.bid].treasury = i.bid_treasury
    /\ pools[i.ask].treasury = i.ask_treasury
    /\ Treasurer(i.ask) = i.ask_treasurer
    /\ pools[i.sen].treasury = i.sen_treasury
    /\ Treasurer(i.sen) = i.sen_treasurer
    /\ pools[i.sen].network = pools[i.bid].network
    /\ pools[i.sen].network = pools[i.ask].network
    /\ i.amount # Zero

\* C12 (Swap no-op on identical pools): a Swap whose checks pass and whose
\* bid pool is its ask pool returns success and changes no pool, no LPT
\* account and no token balance.
C12_SwapSamePoolNoOp ==
    \A i \in IF Running THEN SwapInputs ELSE {} :
        (i.bid = i.ask /\ SwapPrechecks(i)) =>
            LET r == RunSwap(Ledger, i)
            IN  r.err = "Ok" /\ r.s = Ledger

\* A Swap of a pool against itself was committed, for an amount the pool
\* could have traded, with another pool as the settlement pool.
C12_Witness ==
    /\ last.op = "Swap"
    /\ last.args.bid = last.args.ask
    /\ last.args.sen # last.args.bid
    /\ pools[last.args.bid].reserve # Zero

\* ------------------------------------------------------- Swap, step by step
\* amount  when the account  acc  is the account  role , else nothing.
Share(acc, role, amount) == IF acc = role THEN amount ELSE Zero

\* What a token account receives by the deposit and the payout of a
\* committed Swap  i  between two pools.
SwapTradeGain(i, acc) ==
    Plus(Share(acc, i.bid_treasury, i.amount),
         Share(acc, i.dst, SwapFee(i).paid_amount_with_fee))

\* What a token account pays by the deposit and the payout of a committed
\* Swap  i  between two pools.
SwapTradeLoss(i, acc) ==
    Plus(Share(acc, i.src, i.amount),
         Share(acc, i.ask_treasury, SwapFee(i).paid_amount_with_fee))

\* What a token account receives and pays in a committed Swap  i  between
\* two pools: the deposit, the payout and the earn paid to the vault.
SwapTokenGain(i, acc) ==
    Plus(SwapTradeGain(i, acc), Share(acc, i.vault, SwapEarnInSen(i)))

SwapTokenLoss(i, acc) ==
    Plus(SwapTradeLoss(i, acc), Share(acc, i.sen_treasury, SwapEarnInSen(i)))

\* C13 (Swap): a committed Swap(amount) between distinct bid and ask pools
\* sets bid.reserve' = bid.reserve + amount and ask.reserve' =
\* new_reserve_with_fee + earn = ask.reserve - payout, with
\* (new_reserve_with_fee, payout, fee, earn) = apply_fee(curve(bid.reserve +
\* amount, bid.reserve, bid.lpt, ask.reserve, ask.lpt), ask.reserve,
\* ask.mint = primary); exactly amount goes from the trader's source
\* account into the bid treasury and exactly payout from the ask treasury to
\* the trader's destination account.
C13_SwapEffect ==
    [][(last'.op = "Swap" /\ last'.args.bid # last'.args.ask) =>
        LET i == last'.args
            f == SwapFee(i)
        IN  /\ f.some
            /\ pools'[i.bid].reserve = Plus(pools[i.bid].reserve, i.amount)
            /\ pools'[i.ask].reserve
                  = Plus(f.new_ask_reserve_with_fee, f.earn)
            /\ Plus(pools'[i.ask].reserve, f.paid_amount_with_fee)
                  = pools[i.ask].reserve
            /\ \A acc \in {i.bid_treasury, i.ask_treasury, i.src, i.dst} :
                  Plus(tokens'[acc].amount, SwapTokenLoss(i, acc))
                      = Plus(tokens[acc].amount, SwapTokenGain(i, acc))]_vars

\* The earn of a committed Swap  i  (none when the bid pool is the ask pool).
SwapEarnOf(i) == IF i.bid = i.ask THEN Zero ELSE SwapFee(i).earn

\* What every committed Swap leaves alone and what its earn step does to the
\* settlement pool's reserve, its treasury and the vault.
SwapSharesAndEarn(i) ==
    /\ \A p \in PoolIds : pools'[p].lpt = pools[p].lpt
    /\ lpts' = lpts
    /\ SwapEarnOf(i) # Zero =>
          /\ Plus(pools'[i.sen].reserve, SwapEarnInSen(i))
                = pools[i.sen].reserve
          /\ Plus(tokens'[i.sen_treasury].amount,
                  Plus(SwapTradeLoss(i, i.sen_treasury), SwapEarnInSen(i)))
                = Plus(tokens[i.sen_treasury].amount,
                       SwapTradeGain(i, i.sen_treasury))
          /\ Plus(tokens'[i.vault].amount, SwapTradeLoss(i, i.vault))
                = Plus(tokens[i.vault].amount,
                       Plus(SwapTradeGain(i, i.vault), SwapEarnInSen(i)))

\* C14 (Swap never changes a share supply): after a committed Swap the lpt
\* of every pool and LPT account is unchanged; the settlement pool's reserve
\* is decreased by earn_in_settlement, the amount moved from its treasury to
\* the vault, when earn != 0; and when earn = 0 the settlement pool record
\* and its treasury are untouched.
C14_SwapKeepsShares ==
    [][last'.op = "Swap" =>
        LET i == last'.args
        IN  /\ SwapSharesAndEarn(i)
            /\ SwapEarnOf(i) = Zero =>
                  /\ pools'[i.sen] = pools[i.sen]
                  /\ tokens'[i.sen_treasury] = tokens[i.sen_treasury]]_vars

\* ------------------------------------------------------- network and pools
\* The order of the network states.
StateRank(st) ==
    IF st = "Uninitialized" THEN 0 ELSE IF st = "Initialized" THEN 1 ELSE 2

\* C15 (network lifecycle): the network state only moves Uninitialized ->
\* Initialized -> Activated and never back; it is changed by a committed
\* InitializeNetwork (to Initialized) and by a committed InitializePool of
\* the primary mint (from Initialized to Activated, every time one commits,
\* hence once) and by no other instruction.
C15_NetworkLifecycle ==
    [][/\ StateRank(network'.state) >= StateRank(network.state)
       /\ network'.state # network.state =>
             \/ /\ last'.op = "InitializeNetwork"
                /\ network.state = "Uninitialized"
                /\ network'.state = "Initialized"
             \/ /\ last'.op = "InitializePool"
                /\ last'.args.mint = PRIMARY
                /\ network.state = "Initialized"
                /\ network'.state = "Activated"
       /\ (steps' # steps /\ last'.op = "InitializePool"
           /\ last'.args.mint = PRIMARY) =>
             /\ network.state = "Initialized"
             /\ network'.state = "Activated"
       /\ (steps' # steps /\ last'.op = "InitializeNetwork") =>
             /\ network.state = "Uninitialized"
             /\ network'.state = "Initialized"]_vars

\* The network was activated and instructions other than the two that move
\* its state were committed afterwards.
C15_Witness ==
    /\ network.state = "Activated"
    /\ last.op \in {"Swap", "RemoveLiquidity", "ClosePool"}

\* Whether InitializePool's checks before the mint is checked against the
\* network's state pass on  i.
PoolPrechecks(i) ==
    /\ NetworkIsInitialized(network)
    /\ ~pools[i.pool].is_initialized
    /\ ~lpts[i.lpt_acc].is_initialized
    /\ i.signed
    /\ Treasurer(i.pool) = i.treasurer
    /\ NetworkIsApproved(network, i.mint)

\* C16 (pool creation is ordered by activation): InitializePool of a
\* non-primary mint fails with NotInitialized while the network is not
\* Activated, InitializePool of the primary mint fails once it is; so there
\* is at most one primary pool, and a non-primary pool exists only with the
\* primary pool created and the network Activated.
C16_PoolCreationOrder ==
    /\ \A i \in IF Running THEN InitializePoolInputs ELSE {} :
          LET r == RunInitializePool(Ledger, i)
          IN  /\ (PoolPrechecks(i) /\ i.mint # PRIMARY
                  /\ network.state # "Activated")
                    => r.err = "NotInitialized" /\ r.s = Ledger
              /\ (PoolPrechecks(i) /\ i.mint = PRIMARY
                  /\ network.state = "Activated")
                    => r.err # "Ok" /\ r.s = Ledger
    /\ Cardinality({p \in InitPools : pools[p].mint = PRIMARY}) <= 1
    /\ (\E p \in InitPools : pools[p].mint # PRIMARY) =>
          /\ network.state = "Activated"
          /\ \E p \in InitPools : pools[p].mint = PRIMARY

\* A primary pool and a non-primary pool exist, and a second primary pool is
\* asked for.
C16_Witness ==
    /\ \E p \in InitPools : pools[p].mint # PRIMARY
    /\ \E i \in InitializePoolInputs : PoolPrechecks(i) /\ i.mint = PRIMARY

\* ------------------------------------------------- exactly-once construction
\* InitializeNetwork on an initialized network and InitializeLPT on an
\* initialized LPT account fail with ConstructorOnce and write nothing.
NetworkAndLptOnce ==
    /\ \A i \in InitializeNetworkInputs :
          NetworkIsInitialized(network) =>
              LET r == RunInitializeNetwork(Ledger, i)
              IN  r.err = "ConstructorOnce" /\ r.s = Ledger
    /\ \A i \in InitializeLPTInputs :
          lpts[i.lpt_acc].is_initialized =>
              LET r == RunInitializeLPT(Ledger, i)
              IN  r.err = "ConstructorOnce" /\ r.s = Ledger

\* C17 as stated (exactly-once construction): InitializeNetwork on an
\* initialized network, InitializePool on an initialized pool or with an
\* initialized LPT account, and InitializeLPT on an initialized LPT account
\* each fail with ConstructorOnce and write nothing.
C17_ConstructorOnceAsStated ==
    /\ NetworkAndLptOnce
    /\ \A i \in IF Running THEN InitializePoolInputs ELSE {} :
          (pools[i.pool].is_initialized \/ lpts[i.lpt_acc].is_initialized) =>
              LET r == RunInitializePool(Ledger, i)
              IN  r.err = "ConstructorOnce" /\ r.s = Ledger

\* C17 as amended: as stated, with InitializePool's ConstructorOnce holding
\* on an initialized network; on an uninitialized network InitializePool
\* with an initialized LPT account fails with UninitializedAccount, still
\* writing nothing.
C17_ConstructorOnce ==
    /\ NetworkAndLptOnce
    /\ \A i \in IF Running THEN InitializePoolInputs ELSE {} :
          (pools[i.pool].is_initialized \/ lpts[i.lpt_acc].is_initialized) =>
              LET r == RunInitializePool(Ledger, i)
              IN  /\ r.s = Ledger
                  /\ r.err = IF NetworkIsInitialized(network)
                             THEN "ConstructorOnce"
                             ELSE "UninitializedAccount"

\* On an activated network, a pool with its creator's LPT account holding
\* shares: InitializePool is asked for that pool and for that LPT account,
\* InitializeLPT for that LPT account.
C17_Witness ==
    /\ network.state = "Activated"
    /\ \E i \in InitializePoolInputs : pools[i.pool].is_initialized
    /\ \E i \in InitializePoolInputs :
          lpts[i.lpt_acc].is_initialized /\ lpts[i.lpt_acc].lpt # Zero
    /\ \E i \in InitializeLPTInputs :
          lpts[i.lpt_acc].is_initialized /\ lpts[i.lpt_acc].lpt # Zero

\* ------------------------------------------------------------------ Transfer
\* Whether the signer of Transfer  i  owns its source, both accounts being
\* initialized.
TransferBySourceOwner(i) ==
    /\ lpts[i.src].is_initialized
    /\ lpts[i.dst].is_initialized
    /\ i.signed
    /\ lpts[i.src].owner = i.owner

\* C18 (Transfer): a successful Transfer(lpt) between two distinct LPT
\* accounts of one pool, the signer owning src and 0 < lpt <= src.lpt, sets
\* src.lpt' = src.lpt - lpt and dst.lpt' = dst.lpt + lpt and changes nothing
\* else; between accounts of different pools it fails with UnmatchedPool;
\* with src = dst and the other preconditions met it succeeds and changes
\* nothing.
C18_Transfer ==
    \A i \in IF Running THEN TransferInputs ELSE {} :
        LET r == RunTransfer(Ledger, i)
            fine == /\ TransferBySourceOwner(i)
                    /\ lpts[i.src].pool = lpts[i.dst].pool
                    /\ i.lpt # Zero
                    /\ AtMost(i.lpt, lpts[i.src].lpt)
        IN  /\ (TransferBySourceOwner(i)
                /\ lpts[i.src].pool # lpts[i.dst].pool)
                  => r.err = "UnmatchedPool" /\ r.s = Ledger
            /\ (fine /\ i.src = i.dst) => r.err = "Ok" /\ r.s = Ledger
            /\ (fine /\ i.src # i.dst /\ r.err = "Ok") =>
                  r.s = [Ledger EXCEPT
                            !.lpts[i.src].lpt = Minus(lpts[i.src].lpt, i.lpt),
                            !.lpts[i.dst].lpt = Plus(lpts[i.dst].lpt, i.lpt)]
            /\ r.err = "Ok" => fine

\* A Transfer of part of an account's shares to another account of the same
\* pool was committed.
C18_Witness ==
    /\ last.op = "Transfer"
    /\ last.args.src # last.args.dst
    /\ lpts[last.args.src].lpt # Zero
    /\ lpts[last.args.dst].lpt = last.args.lpt

\* ------------------------------------------------------------------- closing
\* Whether CloseLPT  i  passes the checks that precede the one on the balance.
CloseLPTPrechecks(i) ==
    /\ lpts[i.lpt_acc].is_initialized
    /\ i.signed
    /\ lpts[i.lpt_acc].owner = i.owner

\* Whether ClosePool  i  passes the checks that precede the one on the
\* reserve and the supply.
ClosePoolPrechecks(i) ==
    /\ pools[i.pool].is_initialized
    /\ i.signed
    /\ pools[i.pool].owner = i.owner
    /\ pools[i.pool].treasury = i.treasury
    /\ Treasurer(i.pool) = i.treasurer

\* Closing a record that is not drained fails and writes nothing, lamports
\* included; with the other checks passing the error is ZeroValue.
UndrainedStaysOpen ==
    /\ \A i \in IF Running THEN CloseLPTInputs ELSE {} :
          lpts[i.lpt_acc].lpt # Zero =>
              LET r == RunCloseLPT(Ledger, i)
              IN  /\ r.err # "Ok"
                  /\ r.s = Ledger
                  /\ CloseLPTPrechecks(i) => r.err = "ZeroValue"
    /\ \A i \in IF Running THEN ClosePoolInputs ELSE {} :
          (pools[i.pool].reserve # Zero \/ pools[i.pool].lpt # Zero) =>
              LET r == RunClosePool(Ledger, i)
              IN  /\ r.err # "Ok"
                  /\ r.s = Ledger
                  /\ ClosePoolPrechecks(i) => r.err = "ZeroValue"

\* The record a committed CloseLPT or ClosePool closes was drained when the
\* instruction ran, and gave up its lamports.
ClosedWasDrained ==
    /\ last'.op = "CloseLPT" =>
          /\ lpts[last'.args.lpt_acc].lpt = Zero
          /\ lamports'[last'.args.lpt_acc] = Zero
    /\ last'.op = "ClosePool" =>
          /\ pools[last'.args.pool].reserve = Zero
          /\ pools[last'.args.pool].lpt = Zero
          /\ lamports'[last'.args.pool] = Zero

\* C19 (only drained records are closed): CloseLPT on an LPT account with
\* lpt # 0 and ClosePool on a pool with reserve # 0 or lpt # 0 fail with
\* ZeroValue and leave the record and its lamports intact; a closed LPT
\* account had lpt = 0, and a closed pool reserve = 0 and lpt = 0, at the
\* moment it was closed.
C19_OnlyDrainedClosed ==
    []UndrainedStaysOpen /\ [][ClosedWasDrained]_vars

\* An empty LPT account was just closed while a pool and an LPT account that
\* are not drained exist, whose closing is refused.
C19_Witness ==
    /\ last.op = "CloseLPT"
    /\ lamports[last.args.lpt_acc] = Zero
    /\ \E i \in CloseLPTInputs :
          /\ CloseLPTPrechecks(i)
          /\ lpts[i.lpt_acc].lpt # Zero
          /\ lamports[i.lpt_acc] # Zero
          /\ RunCloseLPT(Ledger, i).err = "ZeroValue"
    /\ \E i \in ClosePoolInputs :
          /\ ClosePoolPrechecks(i)
          /\ pools[i.pool].reserve # Zero
          /\ RunClosePool(Ledger, i).err = "ZeroValue"

\* ------------------------------------------------------------------- custody
\* C20 (custody consistency): treasuries being moved only by the program's
\* own transfers, after any sequence of successful instructions the token
\* balance of every pool's treasury equals the pool's recorded reserve.
C20_CustodyConsistency ==
    \A p \in PoolIds :
        pools[p].is_initialized =>
            tokens[pools[p].treasury].amount = pools[p].reserve

\* ------------------------------------------------------ where the earn is taken
\* C21 (the earn is only taken from the primary pool): in every successful
\* Swap with earn # 0 the settlement pool the caller passed, whose reserve
\* the earn step lowers, is a pool of the network's primary asset; and a Swap
\* that names a pool of another asset as its settlement pool, that pool being
\* neither its bid nor its ask pool, does not lower that pool's reserve.
C21_EarnFromPrimaryPool ==
    [][last'.op = "Swap" =>
        LET i == last'.args
        IN  /\ SwapEarnOf(i) # Zero => pools[i.sen].mint = PRIMARY
            /\ (pools[i.sen].mint # PRIMARY /\ i.sen \notin {i.bid, i.ask})
                  => AtMost(pools[i.sen].reserve,
                            pools'[i.sen].reserve)]_vars

\* ----------------------------------------------------------------- full exit
\* Whether RemoveLiquidity  i  is its signer's exit, to the signer's wallet,
\* with all the shares of the pool, which the signer's account holds.
FullExit(i) ==
    /\ RemovePrechecks(i)
    /\ i.dst = Wallet(i.owner, pools[i.pool].mint)
    /\ pools[i.pool].lpt # Zero
    /\ lpts[i.lpt_acc].lpt = pools[i.pool].lpt
    /\ i.amount = pools[i.pool].lpt

\* What a full exit does to the current ledger: it succeeds, pays the
\* pool's whole reserve to its signer and leaves the pool and the account
\* empty.
ExitsInFull(i) ==
    LET r  == RunRemoveLiquidity(Ledger, i)
        to == i.dst
    IN  /\ r.err = "Ok"
        /\ r.s.tokens[to].amount
              = Plus(tokens[to].amount, pools[i.pool].reserve)
        /\ r.s.pools[i.pool].reserve = Zero
        /\ r.s.pools[i.pool].lpt = Zero
        /\ r.s.lpts[i.lpt_acc].lpt = Zero

DebitByOwner(l) ==
    /\ \/ last'.op = "RemoveLiquidity" /\ last'.args.lpt_acc = l
       \/ last'.op = "Transfer" /\ last'.args.src = l
    /\ last'.args.signed
    /\ last'.args.owner = lpts[l].owner

\* C23 (owner-only debit): over any sequence of instructions the lpt balance
\* of an LPT account decreases only in a RemoveLiquidity or a Transfer (as
\* source) signed by the account's recorded owner; no instruction signed by
\* anyone else, and no Swap, AddLiquidity, InitializePool, InitializeLPT or
\* close instruction lowers an existing account's balance or changes its
\* owner or its pool.
C23_OwnerOnlyDebit ==
    [][\A l \in LptIds :
          lpts[l].is_initialized =>
              /\ lpts'[l].is_initialized
              /\ lpts'[l].owner = lpts[l].owner
              /\ lpts'[l].pool = lpts[l].pool
              /\ Less(lpts'[l].lpt, lpts[l].lpt) => DebitByOwner(l)]_vars

\* The owner of an account just took part of its shares out, another user's
\* account of the same pool exists, and the same removal signed by the other
\* user is refused.
C23_Witness ==
    /\ last.op = "RemoveLiquidity"
    /\ lpts[last.args.lpt_acc].lpt # Zero
    /\ \E l \in InitLpts :
          /\ lpts[l].pool = last.args.pool
          /\ lpts[l].owner # last.args.owner
    /\ \E i \in RemoveLiquidityInputs :
          /\ i.lpt_acc = last.args.lpt_acc
          /\ i.signed
          /\ i.owner # lpts[i.lpt_acc].owner
          /\ i.amount # Zero
          /\ RunRemoveLiquidity(Ledger, i).err = "InvalidOwner"

====
